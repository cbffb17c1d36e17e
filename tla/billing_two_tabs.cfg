SPECIFICATION BillingSpec
CONSTANTS
  request1 = request1
  request2 = request2
  student1 = student1
  student2 = student2
  subject1 = subject1
  lesson1 = lesson1
  lesson2 = lesson2
  lesson3 = lesson3
  payment1 = payment1
  NoLesson = NoLesson
  NoPayment = NoPayment
  Requests = {request1, request2}
  Students = {student1}
  Subjects = {subject1}
  Lessons = {lesson1, lesson2}
  Minutes = {45, 50}
  Prices = {30, 100}
  MaxWrites = 3
  Payments = {payment1}
  Amounts = {7}
INVARIANT ReceivableFollowsRules
INVARIANT LedgerAgrees
INVARIANT ArchivedIsUnused
SYMMETRY Symmetry
CHECK_DEADLOCK FALSE

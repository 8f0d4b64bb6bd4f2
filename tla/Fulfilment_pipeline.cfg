\* Two workers and a failure on each side of one order.
CONSTANTS
  Orders = {o1}
  Workers = {w1, w2}
  Clerks = {}
  Registered = {o1}
  MaxRetries = 1
  MaxFaults = 1
  InvoiceWorkers = {v1, v2}
  MaxInvoiceRetries = 1
  MaxInvoiceFaults = 1
  None = None
SPECIFICATION FairFulfilmentSpec
INVARIANTS
  InvoicedStaysPaid
PROPERTIES
  PaidIsPrinted
CHECK_DEADLOCK FALSE

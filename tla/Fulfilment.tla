---------------------------- MODULE Fulfilment ----------------------------
(***************************************************************************)
(* The pipeline behind a placed order: the payment service settles the     *)
(* order and its on_commit hook feeds the queue of the invoice service.    *)
(* Payment and Invoice share the orders' status and that queue; a step of  *)
(* one leaves everything else of the other alone.                          *)
(***************************************************************************)
EXTENDS Payment

CONSTANTS InvoiceWorkers, MaxInvoiceRetries, MaxInvoiceFaults

ASSUME InvoiceRetryAssumption == MaxInvoiceRetries \in Nat /\ MaxInvoiceFaults \in Nat

VARIABLES invoicePc, invoiceJob, rowOwner, lastNumber, next, number, pdfUrl, files,
          invoiceFailed, invoiceFaults,
          waiting  \* the copies of each generate_invoice task in the broker

I == INSTANCE Invoice WITH
  Workers <- InvoiceWorkers, MaxRetries <- MaxInvoiceRetries,
  MaxFaults <- MaxInvoiceFaults, tasks <- waiting, pc <- invoicePc, job <- invoiceJob,
  failed <- invoiceFailed, faults <- invoiceFaults

allVars == <<vars, I!vars>>

FulfilmentInit == Init /\ I!Init

(* What the payment service sends, the invoice queue receives. *)
PaymentStep ==
  /\ Next
  /\ waiting' = [o \in Orders |->
       [waiting[o] EXCEPT ![0] = @ + (invoiceTasks'[o] - invoiceTasks[o])]]
  /\ UNCHANGED <<invoicePc, invoiceJob, rowOwner, lastNumber, next, number, pdfUrl,
                 files, invoiceFailed, invoiceFaults>>

InvoiceStep ==
  /\ \E w \in InvoiceWorkers : I!Step(w) \/ I!Failure(w)
  /\ UNCHANGED vars

FulfilmentNext == PaymentStep \/ InvoiceStep

FulfilmentSpec == FulfilmentInit /\ [][FulfilmentNext]_allVars

FairFulfilmentSpec ==
  /\ FulfilmentSpec
  /\ \A w \in Workers : WF_allVars(WorkerStep(w) /\ PaymentStep)
  /\ \A w \in InvoiceWorkers : SF_allVars(I!Step(w) /\ InvoiceStep)

-----------------------------------------------------------------------------
(* Properties *)

(* The shared status is never seen to change under an invoice: what was    *)
(* invoiced as PAID stays PAID.                                            *)
InvoicedStaysPaid == \A o \in Orders : number[o] # 0 => orderStatus[o] = "PAID"

(* Only a lost on_commit hook leaves a paid order without an invoice task, *)
(* and a paid order whose task was sent gets its printed invoice unless    *)
(* that task failed for good, whatever the two services do to each other.  *)
PaidIsPrinted ==
  \A o \in Orders :
    orderStatus[o] = "PAID" ~>
      [](\/ o \in pdfUrl \cup invoiceFailed
         \/ o \in unsent /\ invoiceTasks[o] = 0)
=============================================================================

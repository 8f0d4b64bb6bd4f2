---------------------------- MODULE InvoiceBook ----------------------------
(***************************************************************************)
(* What invoicing promises a tenant: a book whose pages are numbered       *)
(* without gaps, one page for each invoiced order, never torn out or       *)
(* rewritten, and each printed at most once.                               *)
(***************************************************************************)
EXTENDS Naturals, Sequences

CONSTANT Orders

VARIABLES book, printed, paid

vars == <<book, printed, paid>>

Invoiced == {book[n] : n \in DOMAIN book}

Init == book = <<>> /\ printed = {} /\ paid \subseteq Orders

Pay(o) == paid' = paid \cup {o} /\ UNCHANGED <<book, printed>>

Issue(o) ==
  /\ o \in paid \ Invoiced
  /\ book' = Append(book, o)
  /\ UNCHANGED <<printed, paid>>

Publish(o) ==
  /\ o \in Invoiced \ printed
  /\ printed' = printed \cup {o}
  /\ UNCHANGED <<book, paid>>

Next == \E o \in Orders : Pay(o) \/ Issue(o) \/ Publish(o)

Spec == Init /\ [][Next]_vars
=============================================================================

-------------------------- MODULE MCTenantRequests --------------------------
(***************************************************************************)
(* An instance of TenantRequests for TLC: the product p1 is sold by the    *)
(* tenant t1 and p2 by t2.  Each is asked for with the domain of t1, whose *)
(* address book gets most of the work too; t2 has a default address and a  *)
(* payment task.                                                           *)
(***************************************************************************)
EXTENDS TenantRequests

CONSTANTS t1, t2, p1, p2

Sellers == [p \in Products |-> IF p = p1 THEN t1 ELSE t2]

Job(kind, tenant, arg) == [kind |-> kind, tenant |-> tenant, arg |-> arg]

Work ==
  {Job("add_product", t1, p1), Job("add_product", t1, p2), Job("add_product", None, p1)}
    \cup {Job("add_address", t1, "default"), Job("add_address", t1, "other")}
    \cup {Job("add_address", t2, "default"), Job("authorize", t2, None)}
    \cup {Job("exempt", None, None)}
=============================================================================

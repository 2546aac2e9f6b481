--------------------------- MODULE MCOrderRefund ---------------------------
(* The callers of the instances; each .cfg chooses the sets they form.     *)
EXTENDS OrderRefund

CONSTANTS cust, adm, toko, sla, exp, d1, d2
=============================================================================

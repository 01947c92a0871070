------------------------------ MODULE MCImages ------------------------------
(* Images for TLC: one image raw, raw and packed, or of a zone, and        *)
(* another that is an ISO image.                                           *)
EXTENDS Images, TLC

CONSTANTS i1, i2

Type(kind, size, content) == [kind |-> kind, size |-> size, content |-> content]
Plain == Type("raw", 3, 3)

MCTypes ==
    (i1 :> {Plain, Type("raw", 1, 3), Type("zone", 1, 1)}) @@ (i2 :> {Type("iso", 1, 1)})
=============================================================================

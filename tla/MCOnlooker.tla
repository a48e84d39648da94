---- MODULE MCOnlooker ----
(***************************************************************************)
(* Two players, one of them with a library of two cards after the draw.    *)
(***************************************************************************)
EXTENDS Onlooker

FourCards == {"bolt", "ring", "elf", "bear"}
FourOwner == [o \in FourCards |-> IF o = "bear" THEN 1 ELSE 0]
====

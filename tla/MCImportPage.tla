---------------------------- MODULE MCImportPage ----------------------------
(* A small instance of ImportPage for TLC. *)
EXTENDS ImportPage, TLC

CONSTANTS x, y

Plain(l) == [qrCode |-> l, chassis |-> "", capacity |-> "good", model |-> "good",
             condition |-> "NEW", made |-> "", cycles |-> ""]
Used(l) == [Plain(l) EXCEPT !.condition = "USED", !.made = "date", !.cycles = "some"]

WornParts == (x :> 0) @@ (y :> 1)

\* A new barrel and a printed one with a worn part; a sheet of which only the
\* last row is good.
SomeFiles == {<<Plain(x), Used(y)>>,
              <<[Plain(x) EXCEPT !.capacity = "bad"], Plain(x), Used(y)>>}
=============================================================================

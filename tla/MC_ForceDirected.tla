-------------------------- MODULE MC_ForceDirected --------------------------
(***************************************************************************)
(* The tables and the graphs that TLC checks ForceDirected on.             *)
(***************************************************************************)
EXTENDS ForceDirected, TLC

(* Part of the tables of main.pl. *)
ShippedDelay == "+" :> 1 @@ "*" :> 2
ShippedPower == "+" :> 4 @@ "*" :> 8

(* The graphs of                                                           *)
(*   c = (a o b) + a;  e = (x o b) o y  or  y o (x o b)                    *)
(* where o is + or *, x is a or c, y is b or c, and c is used at least     *)
(* once.  The edge in the register of c is there once for every use.       *)
a_ == <<"in", 0>>
b_ == <<"in", 1>>
c_ == <<"r", -1>>

TwoStatements(o, x, y, swapped) ==
  LET op(k) == <<o[k], k>>
      uses == Cardinality({n \in {<<1, x>>, <<2, y>>} : n[2] = c_})
  IN  op(1) :> <<a_, b_>> @@ op(2) :> <<op(1), a_>>
      @@ <<"=", 0>> :> <<op(2)>> @@ <<"w", -1>> :> <<<<"=", 0>>>>
      @@ c_ :> [k \in 1 .. uses |-> <<"w", -1>>]
      @@ op(3) :> <<x, b_>>
      @@ op(4) :> (IF swapped THEN <<y, op(3)>> ELSE <<op(3), y>>)
      @@ <<"=", 1>> :> <<op(4)>> @@ <<"out", 0>> :> <<<<"=", 1>>>>
      @@ a_ :> <<>> @@ b_ :> <<>>

(* The graphs of  c = a + b;  e = c * b;  and of  f = a o b  or            *)
(* f = (a + b) + b,  which has two cycles to go to.                        *)
ThreeStatements(f) ==
  LET op(k) == <<f[k], 2 + k>>
  IN  <<"+", 1>> :> <<a_, b_>> @@ <<"=", 0>> :> <<<<"+", 1>>>>
      @@ <<"w", -1>> :> <<<<"=", 0>>>> @@ c_ :> <<<<"w", -1>>>>
      @@ <<"*", 2>> :> <<c_, b_>> @@ <<"=", 1>> :> <<<<"*", 2>>>>
      @@ <<"out", 0>> :> <<<<"=", 1>>>>
      @@ [v \in {op(k) : k \in DOMAIN f} |-> IF v = op(1) THEN <<a_, b_>> ELSE <<op(1), b_>>]
      @@ <<"=", 2>> :> <<op(Len(f))>> @@ <<"out", 1>> :> <<<<"=", 2>>>>
      @@ a_ :> <<>> @@ b_ :> <<>>

StatementGraphs ==
  {TwoStatements(p[1], p[2][1], p[2][2], p[3]) :
     p \in {o \in [1 .. 4 -> {"+", "*"}] : o[2] = "+"}
            \X (({a_, c_} \X {b_, c_}) \ {<<a_, b_>>}) \X BOOLEAN}
  \union {ThreeStatements(f) : f \in {<<"+">>, <<"*">>, <<"+", "+">>}}

AnyStatements == CHOOSE g \in StatementGraphs : TRUE
=============================================================================

------------------------------ MODULE MCStock -------------------------------
(***************************************************************************)
(* Orders that compete for stock, for TLC.                                 *)
(***************************************************************************)
EXTENDS SagaClaims, SequencesExt

CONSTANTS o1, o2, o3, s1, s2, StockOfEach

(* o1 is approved and the others declined. *)
FirstApproved == [c \in Saga |-> IF c = o1 THEN {"ok"} ELSE {"fail"}]

(* Bound: o2 competes with o1 or with o3. *)
OneRival == ~ (Started(o1) /\ Started(o3))

GivenStock == [s \in SKU |-> StockOfEach]

(* Running totals of m units of s1 and n of any other SKU.                 *)
Total(m, n) == [s \in SKU |-> IF s = s1 THEN m ELSE n]

(* o1 wants one unit of s1 and then two of s2, o2 one of each.             *)
TwoLines ==
  [c \in Saga |-> <<Total(1, 0), IF c = o1 THEN Total(1, 2) ELSE Total(1, 1)>>]

(* Quantities the API accepts too: o3 orders -1 and 2 of s1, then 1 and -1 *)
(* of s2.                                                                  *)
OddLines ==
  [TwoLines EXCEPT ![o3] =
     <<Total(-1, 0), Total(1, 0), Total(1, 1), Total(1, 0)>>]

(* One unit, minus one, and one unit again. *)
OneBackOne == [c \in Saga |-> <<IF c = o2 THEN Total(-1, 0) ELSE Total(1, 0)>>]

(* The loop of release(), a line at a time: what is set aside of s after   *)
(* the lines of c.                                                         *)
LineByLine(c, s) ==
  FoldLeftDomain(
    LAMBDA held, k : Max({held - (Taken(c, k, s) - Taken(c, k - 1, s)), 0}),
    reserved[s], Demand[c])

=============================================================================

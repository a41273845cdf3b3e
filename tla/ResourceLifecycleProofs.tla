------------------------ MODULE ResourceLifecycleProofs ------------------------
(***************************************************************************)
(* What the promise of ResourceLifecycle comes to, for any set of things a *)
(* resource can stand for. Every controller whose steps implement it has   *)
(* these properties too.                                                   *)
(*                                                                         *)
(* A controller's proof that it keeps the promise cites LifeMoves: a step  *)
(* changes what RisingWave has, or moves the resource on.                  *)
(***************************************************************************)
EXTENDS ResourceLifecycle, TLAPS

\* A life has a stage, things made and a thing wanted at every moment.
THEOREM LifecycleTypeCorrect == Spec => []TypeOK
<1>1. Init => TypeOK
  BY DEF Init, TypeOK, Stages
<1>2. TypeOK /\ [Next]_lifecycleVars => TypeOK'
  BY DEF TypeOK, Stages, Next, lifecycleVars, Declare, Amend, Retire, Guard,
         Provide, Withdraw, Release, LetGo, Interfere
<1>. QED  BY <1>1, <1>2, PTL DEF Spec

\* Nothing that a reconcile created belongs to a resource without the
\* finalizer, unless its deletion is over for the operator: whatever is
\* deleted when, nothing is left behind unnoticed.
THEOREM NothingIsUnguarded == Spec => []NothingUnguarded
<1>1. Init => NothingUnguarded
  BY DEF Init, NothingUnguarded
<1>2. NothingUnguarded /\ [Next]_lifecycleVars => NothingUnguarded'
  BY DEF NothingUnguarded, Next, lifecycleVars, Declare, Amend, Retire, Guard,
         Provide, Withdraw, Release, LetGo, Interfere
<1>. QED  BY <1>1, <1>2, PTL DEF Spec

-------------------------------------------------------------------------------
(* What it takes to keep the promise. *)

\* A step in RisingWave, by the operator or by others.
ThingsMove ==
    /\ UNCHANGED <<stage, wanted, keeps>>
    /\ others => others'
    /\ \/ UNCHANGED made
       \/ /\ stage \in {"guarded", "leaving"}
          /\ \E t \in Things \ made : made' = made \cup {t}
       \/ /\ stage = "leaving" \/ others'
          /\ \E t \in made : made' = made \ {t}
       \/ others' /\ made' \subseteq made

\* A write to the resource: what was made goes with it from sight.
StageMoves ==
    /\ UNCHANGED others
    /\ made' = IF stage' \in {"absent", "declared"} THEN {} ELSE made
    /\ \/ UNCHANGED stage /\ (stage = "absent" => UNCHANGED <<wanted, keeps>>)
       \/ stage = "absent" /\ stage' = "declared"
       \/ /\ UNCHANGED <<wanted, keeps>>
          /\ \/ stage = "declared" /\ stage' \in {"guarded", "released", "absent"}
             \/ stage = "guarded" /\ stage' = "leaving"
             \/ /\ stage = "leaving" /\ stage' \in {"released", "absent"}
                /\ keeps \/ wanted \notin made \/ others
             \/ stage = "released" /\ stage' = "absent"

LEMMA LifeMoves ==
    ASSUME TypeOK, TypeOK', NothingUnguarded, ThingsMove \/ StageMoves
    PROVE  [Next]_lifecycleVars
<1>1. CASE ThingsMove
  <2>1. CASE made' = made /\ others' = others
    BY <1>1, <2>1 DEF ThingsMove, lifecycleVars
  <2>2. CASE others' = TRUE /\ made' \subseteq made
    BY <1>1, <2>2 DEF ThingsMove, Next, Interfere
  <2>3. CASE /\ stage \in {"guarded", "leaving"}
             /\ \E t \in Things \ made : made' = made \cup {t}
    BY <1>1, <2>3 DEF ThingsMove, TypeOK, Next, Provide
  <2>4. CASE /\ stage = "leaving" /\ others' = others
             /\ \E t \in made : made' = made \ {t}
    BY <1>1, <2>4 DEF ThingsMove, Next, Withdraw
  <2>. QED
    BY <1>1, <2>1, <2>2, <2>3, <2>4 DEF ThingsMove, TypeOK
<1>2. CASE StageMoves
  <2>1. CASE UNCHANGED stage /\ (stage = "absent" => UNCHANGED <<wanted, keeps>>)
    BY <1>2, <2>1
       DEF StageMoves, TypeOK, NothingUnguarded, Next, Amend, lifecycleVars
  <2>2. CASE stage = "absent" /\ stage' = "declared"
    BY <1>2, <2>2 DEF StageMoves, TypeOK, NothingUnguarded, Next, Declare
  <2>3. CASE UNCHANGED <<wanted, keeps>> /\ stage = "declared"
               /\ stage' \in {"guarded", "released", "absent"}
    BY <1>2, <2>3 DEF StageMoves, NothingUnguarded, Next, Guard, Retire
  <2>4. CASE UNCHANGED <<wanted, keeps>> /\ stage = "guarded"
               /\ stage' = "leaving"
    BY <1>2, <2>4 DEF StageMoves, Next, Retire
  <2>5. CASE /\ UNCHANGED <<wanted, keeps>>
             /\ stage = "leaving" /\ stage' \in {"released", "absent"}
             /\ keeps \/ wanted \notin made \/ others
    BY <1>2, <2>5 DEF StageMoves, Next, Release
  <2>6. CASE UNCHANGED <<wanted, keeps>> /\ stage = "released"
               /\ stage' = "absent"
    BY <1>2, <2>6 DEF StageMoves, Next, LetGo
  <2>. QED  BY <1>2, <2>1, <2>2, <2>3, <2>4, <2>5, <2>6 DEF StageMoves
<1>. QED  BY <1>1, <1>2

===============================================================================

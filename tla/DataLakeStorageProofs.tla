------------------------ MODULE DataLakeStorageProofs ------------------------
(***************************************************************************)
(* Proofs about the DataLakeStorage constructor model, for every set of    *)
(* day counts Delays.  The state is inductive once it says what the        *)
(* constructor wrote: after it has run, the removal policy and the three   *)
(* lifecycle rule sequences are those derived from the (unchanged) props.  *)
(***************************************************************************)
EXTENDS DataLakeStorage, SequenceTheorems, TLAPS

USE DelaysAssumption

(* The constructor's output, as a function of the props it was given. *)
Synthesized ==
  built => /\ removal = RemovalOf(props)
           /\ rules = [t \in Tiers |-> TransitionsOf(props, t)]

Inv == TypeOK /\ Synthesized

LEMMA ConcatPair ==
  ASSUME NEW S, NEW a \in S, NEW b \in S
  PROVE  <<a>> \o <<b>> = <<a, b>>
<1>1. <<a>> \in Seq(S) /\ <<b>> \in Seq(S) /\ <<a, b>> \in Seq(S)  OBVIOUS
<1>2. /\ <<a>> \o <<b>> \in Seq(S) /\ Len(<<a>> \o <<b>>) = 2
      /\ (<<a>> \o <<b>>)[1] = a /\ (<<a>> \o <<b>>)[2] = b
  BY <1>1, ConcatProperties
<1>3. Len(<<a, b>>) = 2 /\ <<a, b>>[1] = a /\ <<a, b>>[2] = b  OBVIOUS
<1>4. \A i \in 1 .. Len(<<a>> \o <<b>>) : (<<a>> \o <<b>>)[i] = <<a, b>>[i]
  BY <1>2, <1>3
<1>. QED  BY <1>1, <1>2, <1>3, <1>4, SeqEqual, Zenon

LEMMA TransitionsType ==
  ASSUME NEW p \in Props, NEW t \in Tiers
  PROVE  TransitionsOf(p, t) \in Seq(Transition)
<1>1. /\ OrDefault(p.ia[t], 90) \in Nat /\ OrDefault(p.ia[t], 180) \in Nat
      /\ OrDefault(p.archive[t], 180) \in Nat
  BY DEF Props, DelayProp, OrDefault
<1>2. Truthy(p.archive[t]) => p.archive[t] \in Nat
  BY DEF Props, DelayProp, Truthy
<1>3. CASE t = "bronze"
  BY <1>1, <1>3 DEF TransitionsOf, BronzeTransitions, IA, Glacier, Transition
<1>4. CASE t # "bronze"
  <2>1. IA(OrDefault(p.ia[t], 180)) \in Transition
    BY <1>1 DEF IA, Transition
  <2>2. (IF Truthy(p.archive[t]) THEN <<Glacier(p.archive[t])>> ELSE <<>>)
          \in Seq(Transition)
    <3>1. CASE Truthy(p.archive[t])
      <4>1. Glacier(p.archive[t]) \in Transition  BY <1>2, <3>1 DEF Glacier, Transition
      <4>. QED  BY <3>1, <4>1
    <3>2. CASE ~Truthy(p.archive[t])
      BY <3>2
    <3>. QED  BY <3>1, <3>2
  <2>. QED  BY <1>4, <2>1, <2>2 DEF TransitionsOf, UpperTransitions
<1>. QED  BY <1>3, <1>4

LEMMA InitInv == Init => Inv
<1> SUFFICES ASSUME Init PROVE Inv
  OBVIOUS
<1>1. <<>> \in Seq(Transition)
  OBVIOUS
<1>2. rules \in [Tiers -> Seq(Transition)]
  BY <1>1 DEF Init
<1>. QED  BY <1>2 DEF Init, Inv, TypeOK, Synthesized

LEMMA NextInv == Inv /\ [Next]_vars => Inv'
<1> SUFFICES ASSUME Inv, [Next]_vars PROVE Inv'
  OBVIOUS
<1>1. CASE Construct
  <2>1. rules' \in [Tiers -> Seq(Transition)]
    BY <1>1, TransitionsType DEF Construct, Inv, TypeOK
  <2>2. removal' \in {Undefined, "RETAIN", "DESTROY"}
    BY <1>1 DEF Construct, Inv, TypeOK, Props, RemovalOf
  <2>. QED  BY <1>1, <2>1, <2>2 DEF Construct, Inv, TypeOK, Synthesized
<1>2. CASE UNCHANGED vars
  BY <1>2 DEF vars, Inv, TypeOK, Synthesized
<1>. QED  BY <1>1, <1>2 DEF Next

(* The constructor model only ever reaches typed states. *)
THEOREM TypeCorrect == Spec => []TypeOK
<1>1. Init => Inv  BY InitInv
<1>2. Inv /\ [Next]_vars => Inv'  BY NextInv
<1>3. Inv => TypeOK  BY DEF Inv
<1>. QED  BY <1>1, <1>2, <1>3, PTL DEF Spec

(* A tier given two non-zero delays that S3 accepts gets exactly the      *)
(* transitions IA then Glacier at those days, whatever the day counts.    *)
LEMMA ExplicitTier ==
  ASSUME NEW p \in Props, NEW t \in Tiers,
         p.ia[t] \in Delays \ {0}, p.archive[t] \in Delays \ {0}
  PROVE  TransitionsOf(p, t) = <<IA(p.ia[t]), Glacier(p.archive[t])>>
<1>1. OrDefault(p.ia[t], 90) = p.ia[t] /\ OrDefault(p.ia[t], 180) = p.ia[t]
      /\ OrDefault(p.archive[t], 180) = p.archive[t]
  BY DEF OrDefault
<1>2. Truthy(p.archive[t])  BY DEF Truthy
<1>3. CASE t = "bronze"
  BY <1>1, <1>3 DEF TransitionsOf, BronzeTransitions
<1>4. CASE t # "bronze"
  <2>1. TransitionsOf(p, t) = <<IA(p.ia[t])>> \o <<Glacier(p.archive[t])>>
    BY <1>1, <1>2, <1>4 DEF TransitionsOf, UpperTransitions
  <2>2. IA(p.ia[t]) \in Transition /\ Glacier(p.archive[t]) \in Transition
    BY DEF IA, Glacier, Transition
  <2>. QED  BY <2>1, <2>2, ConcatPair
<1>. QED  BY <1>3, <1>4

(* With every delay omitted, each tier's rule is one S3 accepts: bronze   *)
(* IA at 90 and Glacier at 180 days, silver and gold IA at 180 days.      *)
LEMMA DefaultTiersAccepted ==
  ASSUME NEW p \in Props, NEW t \in Tiers,
         p.ia[t] = Undefined, p.archive[t] = Undefined
  PROVE  S3Accepts(TransitionsOf(p, t))
<1>1. CASE t = "bronze"
  <2>1. TransitionsOf(p, t) = <<IA(90), Glacier(180)>>
    BY <1>1 DEF TransitionsOf, BronzeTransitions, OrDefault
  <2>2. DaysOf(<<IA(90), Glacier(180)>>, "INFREQUENT_ACCESS") = {90}
        /\ DaysOf(<<IA(90), Glacier(180)>>, "GLACIER") = {180}
    BY DEF DaysOf, IA, Glacier
  <2>. QED  BY <2>1, <2>2 DEF S3Accepts
<1>2. CASE t # "bronze"
  <2>1. TransitionsOf(p, t) = <<IA(180)>>
    BY <1>2 DEF TransitionsOf, UpperTransitions, OrDefault, Truthy
  <2>2. DaysOf(<<IA(180)>>, "INFREQUENT_ACCESS") = {180}
        /\ DaysOf(<<IA(180)>>, "GLACIER") = {}
    BY DEF DaysOf, IA
  <2>. QED  BY <2>1, <2>2 DEF S3Accepts
<1>. QED  BY <1>1, <1>2

(* Explicit, S3-valid delays are used as given and the all-defaults       *)
(* configuration is deployable, for every set of day counts (the         *)
(* transitions built by the constructor, data-lake-storage.ts).          *)
THEOREM ExplicitRulesExactTheorem == Spec => []ExplicitRulesExact
<1>1. Inv => ExplicitRulesExact
  <2> SUFFICES ASSUME Inv, built PROVE ExplicitRulesExact
    BY DEF ExplicitRulesExact
  <2>1. props \in Props /\ rules = [t \in Tiers |-> TransitionsOf(props, t)]
    BY DEF Inv, TypeOK, Synthesized
  <2>2. \A t \in Tiers :
          (/\ props.ia[t] \in Delays \ {0} /\ props.archive[t] \in Delays \ {0}
           /\ S3Accepts(<<IA(props.ia[t]), Glacier(props.archive[t])>>))
            => rules[t] = <<IA(props.ia[t]), Glacier(props.archive[t])>>
    BY <2>1, ExplicitTier
  <2>3. (\A t \in Tiers : props.ia[t] = Undefined /\ props.archive[t] = Undefined)
          => \A t \in Tiers : S3Accepts(rules[t])
    BY <2>1, DefaultTiersAccepted
  <2>. QED  BY <2>2, <2>3 DEF ExplicitRulesExact
<1>. QED  BY <1>1, InitInv, NextInv, PTL DEF Spec
=============================================================================

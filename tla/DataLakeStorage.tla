--------------------------- MODULE DataLakeStorage ---------------------------
(***************************************************************************)
(* The DataLakeStorage construct (src/framework/src/data-lake/             *)
(* data-lake-storage.ts): from its optional props it derives the removal   *)
(* policy and, for each of the bronze, silver and gold buckets, the S3     *)
(* lifecycle transitions.  The constructor runs once; the model chooses    *)
(* the props, runs the constructor, and compares what it synthesizes with  *)
(* the documented defaults and with what S3 accepts.                       *)
(***************************************************************************)
EXTENDS Naturals, Sequences

CONSTANTS
  Undefined,    \* an omitted optional prop
  Delays        \* the day counts a caller may pass

ASSUME DelaysAssumption == Delays \subseteq Nat /\ Undefined \notin Nat

Tiers == {"bronze", "silver", "gold"}
DelayProp == Delays \cup {Undefined}

(* DataLakeStorageProps, reduced to what the lifecycle rules read. *)
Props == [ia : [Tiers -> DelayProp], archive : [Tiers -> DelayProp],
          removalPolicy : {Undefined, "RETAIN", "DESTROY"}]

Transition == [class : {"INFREQUENT_ACCESS", "GLACIER"}, days : Nat]

VARIABLES
  props,      \* the props the constructor is called with
  rules,      \* [Tiers -> Seq(Transition)] once constructed
  removal,    \* the removal policy of the buckets and the key
  built       \* the constructor has run

vars == <<props, rules, removal, built>>

(* JavaScript `x || d` on an optional number: 0 and undefined are falsy. *)
OrDefault(x, d) == IF x = Undefined \/ x = 0 THEN d ELSE x
Truthy(x) == x # Undefined /\ x # 0

(* `props?.removalPolicy || RemovalPolicy.RETAIN`: an enum string, falsy  *)
(* only when omitted.                                                      *)
RemovalOf(p) == IF p.removalPolicy = Undefined THEN "RETAIN" ELSE p.removalPolicy

IA(n) == [class |-> "INFREQUENT_ACCESS", days |-> n]
Glacier(n) == [class |-> "GLACIER", days |-> n]

(* Mutant: the bronze defaults dropped. *)
BronzeTransitionsNoDefault(p) ==
  <<IA(p.ia["bronze"]), Glacier(p.archive["bronze"])>>

(* Bronze: both transitions always, defaults 90 and 180 days. *)
BronzeTransitions(p) ==
  <<IA(OrDefault(p.ia["bronze"], 90)),
    Glacier(OrDefault(p.archive["bronze"], 180))>>

(* Mutant: the gold rule reads the silver archive delay. *)
UpperTransitionsCopyPaste(p, t) ==
  <<IA(OrDefault(p.ia[t], 180))>>
    \o (IF Truthy(p.archive["silver"]) THEN <<Glacier(p.archive["silver"])>> ELSE <<>>)

(* Silver and gold: IA after 180 days by default; Glacier only if an       *)
(* archive delay is given (and truthy).                                    *)
UpperTransitions(p, t) ==
  <<IA(OrDefault(p.ia[t], 180))>>
    \o (IF Truthy(p.archive[t]) THEN <<Glacier(p.archive[t])>> ELSE <<>>)

TransitionsOf(p, t) ==
  IF t = "bronze" THEN BronzeTransitions(p) ELSE UpperTransitions(p, t)

TypeOK ==
  /\ props \in Props
  /\ rules \in [Tiers -> Seq(Transition)]
  /\ removal \in {Undefined, "RETAIN", "DESTROY"}
  /\ built \in BOOLEAN

Init ==
  /\ props \in Props
  /\ rules = [t \in Tiers |-> <<>>]
  /\ removal = Undefined
  /\ built = FALSE

(* The constructor: removal policy, key, access-logs bucket and the three  *)
(* analytics buckets with their lifecycle transitions.                     *)
Construct ==
  /\ ~built
  /\ removal' = RemovalOf(props)
  /\ rules' = [t \in Tiers |-> TransitionsOf(props, t)]
  /\ built' = TRUE
  /\ UNCHANGED props

Next == Construct

(* The constructor runs once; the program then stops. *)
Spec == Init /\ [][Next]_vars /\ WF_vars(Next)

-----------------------------------------------------------------------------
(* References *)

(* The defaults the props' JSDoc states (lines 45-79). *)
DocIA == [t \in Tiers |-> IF t = "bronze" THEN 30 ELSE 90]
DocArchive == [t \in Tiers |-> IF t = "bronze" THEN 90 ELSE Undefined]

DaysOf(seq, class) == {seq[i].days : i \in {j \in DOMAIN seq : seq[j].class = class}}

(* What S3 accepts: IA no sooner than 30 days, Glacier at least 30 days   *)
(* after IA.                                                              *)
S3Accepts(seq) ==
  /\ \A n \in DaysOf(seq, "INFREQUENT_ACCESS") : n >= 30
  /\ \A n \in DaysOf(seq, "INFREQUENT_ACCESS"), m \in DaysOf(seq, "GLACIER") :
       m >= n + 30

-----------------------------------------------------------------------------
(* Properties *)

(* Omitted delays take the defaults the props' documentation states:     *)
(* bronze to IA after 30 days and Glacier after 90, silver and gold to IA *)
(* after 90 days and not archived.                                        *)
DefaultsAsDocumented ==
  built =>
    \A t \in Tiers :
      /\ props.ia[t] = Undefined => DaysOf(rules[t], "INFREQUENT_ACCESS") = {DocIA[t]}
      /\ props.archive[t] = Undefined =>
           DaysOf(rules[t], "GLACIER") =
             IF DocArchive[t] = Undefined THEN {} ELSE {DocArchive[t]}

(* A delay the caller gives is the one used: @default applies only to an  *)
(* omitted prop.                                                          *)
GivenDelaysHonoured ==
  built =>
    \A t \in Tiers :
      /\ props.ia[t] # Undefined => DaysOf(rules[t], "INFREQUENT_ACCESS") = {props.ia[t]}
      /\ props.archive[t] # Undefined => DaysOf(rules[t], "GLACIER") = {props.archive[t]}

(* For a tier whose caller gives both delays, non-zero and acceptable to  *)
(* S3, the synthesized rule is exactly IA then Glacier at those days, and *)
(* the omitted-props configuration yields rules S3 accepts.               *)
ExplicitRulesExact ==
  built =>
    /\ \A t \in Tiers :
         (/\ props.ia[t] \in Delays \ {0} /\ props.archive[t] \in Delays \ {0}
          /\ S3Accepts(<<IA(props.ia[t]), Glacier(props.archive[t])>>))
           => rules[t] = <<IA(props.ia[t]), Glacier(props.archive[t])>>
    /\ (\A t \in Tiers : props.ia[t] = Undefined /\ props.archive[t] = Undefined)
         => \A t \in Tiers : S3Accepts(rules[t])

=============================================================================

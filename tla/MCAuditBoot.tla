---------------------------- MODULE MCAuditBoot ----------------------------
(***************************************************************************)
(* Instances of AuditBoot for TLC: the databases a start may find.         *)
(***************************************************************************)
EXTENDS AuditBoot

OldRow(prev) == [ts |-> 0, kind |-> "event", prev |-> prev]

\* Two rows, the second chained to the first under the given scheme.
TwoRows(scheme) == [i \in 1 .. 2 |-> OldRow(IF i = 2 THEN {<<scheme, 1>>} ELSE NULL)]

FreshSeed == [rows |-> Empty, nextId |-> 1, epoch |-> Unstamped,
              head |-> NoPin, genesis |-> NoPin]

\* Written before pins existed.
UnpinnedSeed == [rows |-> TwoRows("legacy"), nextId |-> 3, epoch |-> Unstamped,
                 head |-> NoPin, genesis |-> NoPin]

\* A keyed chain written before the genesis pin and the pin MACs.
BarePinSeed == [rows |-> TwoRows("hmac256"), nextId |-> 3, epoch |-> "hmac256",
                head |-> [PinFor("hmac256", TwoRows("hmac256"), 2) EXCEPT !.mac = FALSE],
                genesis |-> NoPin]

\* A keyed chain of the current release.
KeyedSeed == [BarePinSeed EXCEPT !.head = PinFor("hmac256", TwoRows("hmac256"), 2),
                                 !.genesis = PinFor("hmac256", TwoRows("hmac256"), 1)]

AllSeeds  == {FreshSeed, UnpinnedSeed, BarePinSeed, KeyedSeed}
BareSeeds == {BarePinSeed}
FreshSeeds == {FreshSeed}

\* The premise of the theorems about these runs holds of the instance.
ASSUME OldSeedsAssumption == OldSeeds
=============================================================================

---------------------------- MODULE MCAuditChain ----------------------------
(***************************************************************************)
(* Instances of AuditChain for TLC: the databases it starts from.          *)
(***************************************************************************)
EXTENDS AuditChain, TLC

OldRow(prev) == [ts |-> 0, kind |-> "event", prev |-> prev]

\* Migrated, never written: the first append, or bootstrap_epoch, chooses.
FreshSeed == [rows |-> Empty, nextId |-> 1, epoch |-> Unstamped,
              head |-> NoPin, genesis |-> NoPin]

\* Bootstrapped to the keyed epoch before its first row.
KeyedSeed == [FreshSeed EXCEPT !.epoch = "hmac256"]

\* A chain written before the epoch system: two rows from before the chain
\* existed, one chained row, no stamp, the pins of the migration.
LegacyRows == [i \in 1 .. 3 |-> OldRow(IF i = 3 THEN {<<"legacy", 2>>} ELSE NULL)]
LegacySeed == [rows |-> LegacyRows, nextId |-> 4, epoch |-> Unstamped,
               head |-> PinFor("legacy", LegacyRows, 3),
               genesis |-> PinFor("legacy", LegacyRows, 1)]
LegacySeeds == {LegacySeed}

\* Pruning tasks are interchangeable.
TaskSymmetry == Permutations(Tasks)

HealthySeeds == {FreshSeed, KeyedSeed}

\* A chain of the current release: stamped, two chained rows, both pins.
Sha7Rows == [i \in 1 .. 2 |-> OldRow(IF i = 2 THEN {<<"sha7", 1>>} ELSE NULL)]
Sha7Seed == [rows |-> Sha7Rows, nextId |-> 3, epoch |-> "sha7",
             head |-> PinFor("sha7", Sha7Rows, 2),
             genesis |-> PinFor("sha7", Sha7Rows, 1)]

CurrentSeeds == HealthySeeds \cup {Sha7Seed}

\* The premise of the theorems holds of real databases, with and without rows,
\* and is what sets the unstamped legacy chain apart.
ASSUME SeedsAssumption ==
    /\ \A seed \in CurrentSeeds : StampedSeed(seed)
    /\ TypedSeed(LegacySeed) /\ ~ StampedSeed(LegacySeed)
=============================================================================

------------------------------ MODULE AuditBoot ------------------------------
(***************************************************************************)
(* How a process opens the audit log.  The server runs the migration's pin *)
(* stamp, bootstrap_epoch and upgrade_pins before it serves; the brain CLI *)
(* runs upgrade_pins alone.  None of the three is a transaction: a read    *)
(* and the write it decides are separate steps, and another process may be *)
(* appending to the same file in between.                                  *)
(***************************************************************************)
EXTENDS AuditChain

CONSTANTS
    Servers,    \* server processes (the database has at most one)
    Clis,       \* brain CLI processes
    MaxKills    \* bound: process kills of a behaviour

ASSUME ServersAssumption == Cardinality(Servers) <= 1 /\ Servers \cap Clis = {}

VARIABLES
    opener,     \* where each process is in its start-up, and what it has read
    kills

Openers == Servers \cup Clis
Off     == [pc |-> "off", scheme |-> "legacy", pin |-> NoPin, pin2 |-> NoPin]

rest  == <<traces, now, keyed, untraced, task, watch, reaudit, crashes, deleted>>
bvars == <<vars, opener, kills>>

At(o, pc) == opener[o].pc = pc

\* Process o moves to pc.
Goto(o, pc) == opener' = [opener EXCEPT ![o].pc = pc]

-----------------------------------------------------------------------------
(* run_migration: pins for a chain that has rows and none, by definition   *)
(* under the legacy scheme.                                                *)

MigrateHead(o) ==
    /\ o \in Servers /\ At(o, "off")
    /\ \/ /\ head = NoPin /\ DOMAIN rows # {}
          /\ \E tip \in DOMAIN rows :
               /\ IsTip(rows, tip)
               /\ opener' = [opener EXCEPT ![o].pc = "stampHead",
                                           ![o].pin = PinFor("legacy", rows, tip)]
       \/ /\ head # NoPin \/ DOMAIN rows = {}
          /\ Goto(o, "migrateGenesis")
    /\ UNCHANGED <<db, rest, kills>>

StampHead(o) ==
    /\ At(o, "stampHead")
    /\ head' = opener[o].pin
    /\ Goto(o, "migrateGenesis")
    /\ UNCHANGED <<rows, nextId, epoch, genesis, rest, kills>>

MigrateGenesis(o) ==
    /\ At(o, "migrateGenesis")
    /\ \/ /\ genesis = NoPin /\ DOMAIN rows # {}
          /\ \E first \in DOMAIN rows :
               /\ IsFirst(rows, first)
               /\ opener' = [opener EXCEPT ![o].pc = "stampGenesis",
                                           ![o].pin = PinFor("legacy", rows, first)]
       \/ /\ genesis # NoPin \/ DOMAIN rows = {}
          /\ Goto(o, "bootstrap")
    /\ UNCHANGED <<db, rest, kills>>

StampGenesis(o) ==
    /\ At(o, "stampGenesis")
    /\ genesis' = opener[o].pin
    /\ Goto(o, "bootstrap")
    /\ UNCHANGED <<rows, nextId, epoch, head, rest, kills>>

-----------------------------------------------------------------------------
(* bootstrap_epoch: a row-less chain goes straight to the keyed epoch.     *)

BootstrapCheck(o) ==
    /\ At(o, "bootstrap")
    /\ Goto(o, IF keyed /\ read_epoch(epoch) = "legacy" /\ DOMAIN rows = {}
                 THEN "stampEpoch" ELSE "upgrade")
    /\ UNCHANGED <<db, rest, kills>>

BootstrapStamp(o) ==
    /\ At(o, "stampEpoch")
    /\ epoch' = "hmac256"
    /\ Goto(o, "upgrade")
    /\ UNCHANGED <<rows, nextId, head, genesis, rest, kills>>

-----------------------------------------------------------------------------
(* upgrade_pins *)

MacsDone(scheme) == scheme = "hmac256" => head.mac /\ genesis.mac

\* The scheme, the first row, and the fast path of every boot but the first.
UpgradeBegin(o) ==
    /\ \/ o \in Servers /\ At(o, "upgrade")
       \/ o \in Clis /\ At(o, "off")
    /\ \/ /\ CanCompute(epoch, keyed)
          /\ genesis = NoPin \/ ~ MacsDone(read_epoch(epoch))
          /\ \E first \in DOMAIN rows :
               /\ IsFirst(rows, first)
               /\ opener' = [opener EXCEPT ![o] =
                                [Off EXCEPT !.pc = "tolerantWalk",
                                            !.scheme = read_epoch(epoch),
                                            !.pin = PinFor(read_epoch(epoch), rows, first)]]
       \/ /\ \/ ~ CanCompute(epoch, keyed)
             \/ DOMAIN rows = {}
             \/ genesis # NoPin /\ MacsDone(read_epoch(epoch))
          /\ Goto(o, "up")
    /\ UNCHANGED <<db, rest, kills>>

\* A chain that fails the walk with MACs tolerated is left verbatim.
UpgradeWalk(o) ==
    /\ At(o, "tolerantWalk")
    /\ IF verify_chain_inner(epoch, rows, head, genesis, FALSE)
         THEN Goto(o, IF genesis = NoPin THEN "upgradeGenesis" ELSE "readPins")
         ELSE Goto(o, "up")
    /\ UNCHANGED <<db, rest, kills>>

UpgradeGenesis(o) ==
    /\ At(o, "upgradeGenesis")
    /\ genesis' = opener[o].pin
    /\ Goto(o, "readPins")
    /\ UNCHANGED <<rows, nextId, epoch, head, rest, kills>>

\* Both pins are read before either is rewritten with its MAC.
ReadPins(o) ==
    /\ At(o, "readPins")
    /\ opener' = [opener EXCEPT ![o].pc = "macHead", ![o].pin = head, ![o].pin2 = genesis]
    /\ UNCHANGED <<db, rest, kills>>

NeedsMac(o, pin) == pin # NoPin /\ ~ pin.mac /\ opener[o].scheme = "hmac256"

\* Mutant: only the genesis pin gets its MAC.
MacHead_Skipped(o) ==
    /\ At(o, "macHead")
    /\ Goto(o, "macGenesis")
    /\ UNCHANGED <<db, rest, kills>>

MacHead(o) ==
    /\ At(o, "macHead")
    /\ head' = IF NeedsMac(o, opener[o].pin) THEN [opener[o].pin EXCEPT !.mac = TRUE] ELSE head
    /\ Goto(o, "macGenesis")
    /\ UNCHANGED <<rows, nextId, epoch, genesis, rest, kills>>

MacGenesis(o) ==
    /\ At(o, "macGenesis")
    /\ genesis' = IF NeedsMac(o, opener[o].pin2) THEN [opener[o].pin2 EXCEPT !.mac = TRUE]
                                                ELSE genesis
    /\ opener' = [opener EXCEPT ![o] = [Off EXCEPT !.pc = "up"]]
    /\ UNCHANGED <<rows, nextId, epoch, head, rest, kills>>

-----------------------------------------------------------------------------
(* A process that is up: a server serves, a CLI command records its rows.  *)

\* What ends a server is Kill, and --re-audit runs instead of one.
Serve ==
    /\ \E o \in Servers : At(o, "up")
    /\ Next
    /\ UNCHANGED <<reaudit, crashes, opener, kills>>

CliRecord(o) ==
    /\ o \in Clis /\ At(o, "up") /\ Room
    /\ Append("event")
    /\ UNCHANGED <<rest, opener, kills>>

\* A process is killed, or exits; its requests die with it.  The next one to
\* start may or may not find the key.
Kill(o) ==
    /\ kills < MaxKills /\ ~ At(o, "off")
    /\ kills' = kills + 1
    /\ opener' = [opener EXCEPT ![o] = Off]
    /\ IF o \in Servers
         THEN /\ task' = [k \in Tasks |-> Idle]
              /\ untraced' = {}
              /\ watch' = [pc |-> "idle", snap |-> NoSnapshot, posture |-> "unknown"]
         ELSE UNCHANGED <<task, untraced, watch>>
    /\ keyed' \in BOOLEAN
    /\ (\E p \in Openers \ {o} : ~ At(p, "off")) => keyed' = keyed
    /\ UNCHANGED <<db, traces, now, reaudit, crashes, deleted>>

BootInit ==
    /\ Init
    /\ opener = [o \in Openers |-> Off]
    /\ kills = 0

BootNext ==
    \/ \E o \in Openers :
         \/ MigrateHead(o) \/ StampHead(o) \/ MigrateGenesis(o) \/ StampGenesis(o)
         \/ BootstrapCheck(o) \/ BootstrapStamp(o)
         \/ UpgradeBegin(o) \/ UpgradeWalk(o) \/ UpgradeGenesis(o)
         \/ ReadPins(o) \/ MacHead(o) \/ MacGenesis(o)
         \/ CliRecord(o) \/ Kill(o)
    \/ Serve

BootSpec == BootInit /\ [][BootNext]_bvars

\* One process has the database open at a time, and a server that of a keyed
\* chain without a genesis pin only after a CLI command has upgraded it.  (The
\* other order leaves a chain that does not verify: its migration stamps a
\* genesis pin of the legacy scheme.)
Orderly ==
    /\ \A o, p \in Openers : o = p \/ At(o, "off") \/ At(p, "off")
    /\ (epoch = "hmac256" /\ DOMAIN rows # {} /\ genesis = NoPin)
         => \A o \in Servers : At(o, "off")

OrderlySpec == BootInit /\ [][BootNext /\ Orderly']_bvars

-----------------------------------------------------------------------------
(* Properties *)

\* Opening the database leaves it verifying: once a process is up that can
\* compute the links, the chain verifies, old pins included (the promise of
\* upgrade_pins to keep existing keyed deployments verifying).
BootHeals ==
    (CanCompute(epoch, keyed) /\ \E o \in Openers : At(o, "up")) => verify_chain(keyed)

-----------------------------------------------------------------------------
(* The inductive invariant behind BootHeals *)

\* The databases of earlier releases: a chain whose links are in the format
\* of its stamp, with whatever pins its release wrote.  Only a legacy chain may
\* lack the head pin, and only one of the keyed or the legacy scheme the
\* genesis pin; a MAC may be missing from either.
OldDb(e, t, h, g) ==
    /\ NullPrefix(t)
    /\ verify_chain_inner(e, t, h, g, FALSE)
    /\ DOMAIN t # {} => /\ h = NoPin => read_epoch(e) = "legacy"
                        /\ g = NoPin => e # "sha7"

OneTask == \A j, k \in Tasks : j = k

\* The databases BootHeals is proved from.  (An unstamped chain with rows and
\* two pruning tasks may lose its rows, and with them its scheme, to one of
\* them while the other is about to re-link.)
OldSeed(seed) ==
    /\ TypedSeed(seed)
    /\ OldDb(seed.epoch, seed.rows, seed.head, seed.genesis)
    /\ seed.epoch = Unstamped /\ DOMAIN seed.rows # {} => OneTask

OldSeeds == \A seed \in Seeds : OldSeed(seed)

OpenerPoints ==
    {"off", "stampHead", "migrateGenesis", "stampGenesis", "bootstrap", "stampEpoch",
     "upgrade", "tolerantWalk", "upgradeGenesis", "readPins", "macHead", "macGenesis", "up"}

BootTypeOK ==
    /\ TypeOK
    /\ opener \in [Openers -> [pc : OpenerPoints, scheme : Schemes, pin : Pin, pin2 : Pin]]
    /\ kills \in Nat

\* What an opener has read is still what the database holds.
OpenerCurrent(o) ==
    LET r == opener[o]
    IN  /\ r.pc \in {"stampHead", "migrateGenesis"} => o \in Servers
        /\ r.pc = "stampHead" =>
             /\ head = NoPin /\ read_epoch(epoch) = "legacy"
             /\ \E tip \in DOMAIN rows : IsTip(rows, tip) /\ r.pin = PinFor("legacy", rows, tip)
        /\ r.pc = "stampGenesis" =>
             /\ genesis = NoPin /\ read_epoch(epoch) = "legacy"
             /\ \E first \in DOMAIN rows :
                  IsFirst(rows, first) /\ r.pin = PinFor("legacy", rows, first)
        /\ r.pc = "stampEpoch" => DOMAIN rows = {}
        /\ r.pc \in {"tolerantWalk", "upgradeGenesis"} =>
             \E first \in DOMAIN rows :
                  IsFirst(rows, first) /\ r.pin = PinFor(r.scheme, rows, first)
        /\ r.pc \in {"tolerantWalk", "upgradeGenesis", "readPins", "macHead", "macGenesis"} =>
             r.scheme = read_epoch(epoch)
        /\ r.pc \in {"readPins", "macHead", "macGenesis"} => genesis # NoPin
        /\ r.pc = "macHead" => r.pin = head
        /\ r.pc \in {"macHead", "macGenesis"} => r.pin2 = genesis
        /\ r.pc = "macGenesis" /\ r.scheme = "hmac256" => head.mac
        /\ r.pc = "up" /\ CanCompute(epoch, keyed) =>
             PinsPresent(read_epoch(epoch), rows, head, genesis)

\* Prunes run in a server that is up, and hold the scheme of the chain; on an
\* unstamped chain there is one, and the rows stay until its transaction.
PrunesCurrent ==
    /\ epoch = Unstamped /\ DOMAIN rows # {} => OneTask
    /\ \A k \in Tasks :
        /\ task[k] # Idle => \E o \in Servers : At(o, "up")
        /\ task[k] # Idle /\ epoch = Unstamped => OneTask
        /\ task[k].pc \in {"counted", "schemed", "verified"} /\ epoch = Unstamped =>
             DOMAIN rows # {}
        /\ task[k].pc \in {"schemed", "verified"} =>
             task[k].scheme = read_epoch(epoch) /\ CanCompute(epoch, keyed)

BootInv ==
    /\ Orderly
    /\ reaudit = NoReaudit
    /\ OldDb(epoch, rows, head, genesis)
    /\ \A o \in Openers : OpenerCurrent(o)
    /\ PrunesCurrent
=============================================================================

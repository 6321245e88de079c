------------------------------ MODULE Standby ------------------------------
(***************************************************************************)
(* The warm standby: src/src/standby.rs, its shipper loop in               *)
(* src/src/bin/brain.rs and the snapshot recipe of src/src/backup.rs.      *)
(*                                                                         *)
(* The source is a database in WAL mode: a page file and a log of commits. *)
(* A checkpoint copies the log into the page file; a commit after a        *)
(* complete checkpoint may start the log over, and the last connection to  *)
(* close deletes it.  The server commits and checkpoints while the         *)
(* shipper, a process of its own, copies.  What a database holds is told   *)
(* by the number of the last commit in it, never by its pages: VACUUM INTO *)
(* numbers them anew, so that frames of the source's log and a base agree  *)
(* on no page numbers.                                                     *)
(*                                                                         *)
(* A ship cycle replaces four kinds of file in the follower directory, one *)
(* at a time: the base and its checksum, the chunk, the manifest and its   *)
(* signature.  Every artifact is sealed under a fresh nonce, so its hash   *)
(* is that of the attempt that wrote it.  promote-check reads the same     *)
(* directory while the shipper goes on.                                    *)
(***************************************************************************)
EXTENDS Naturals

CONSTANTS
    MaxCommits,   \* bound: commits of the source
    MaxAttempts,  \* bound: ship cycles begun
    MaxFaults,    \* bound: failed cycles and kills of the shipper
    FailureLimit  \* consecutive failed cycles after which the shipper stops

ASSUME StandbyAssumption ==
    /\ MaxCommits \in Nat /\ MaxAttempts \in Nat /\ MaxFaults \in Nat
    /\ FailureLimit \in Nat \ {0}

VARIABLES
    \* the source
    commits,    \* the last commit
    file,       \* the page file holds the commits up to this one,
    log,        \* and the log those after this one
    \* the follower directory
    base, sum,  \* base.v3 and base.v3.sha256
    chunk,      \* wal/NNNN.frame-chunk, by cycle
    manifest, sig,
    \* the shipper
    pc, cycle, attempt, failures, faults,
    snap, copy, \* the sealed snapshot and the log as read
    begun,      \* history: the last commit when the attempt began
    \* promote-check
    drill       \* where it stands, the manifest it verified and what it read

source == <<commits, file, log>>
dir == <<base, sum, chunk, manifest, sig>>
mem == <<snap, copy>>
vars == <<commits, file, log, base, sum, chunk, manifest, sig, pc, cycle, attempt, failures,
          faults, snap, copy, begun, drill>>

Commits == 0..MaxCommits
Attempts == 1..MaxAttempts
Cycles == 1..MaxAttempts
NoFile == [id |-> 0]
NoDrill == [pc |-> "idle", manifest |-> NoFile, base |-> NoFile, chunk |-> NoFile]

-----------------------------------------------------------------------------
(* SQLite (external), as the server and the shipper use it                 *)

\* A commit after a complete checkpoint may start the log over (a reader of the
\* log prevents it).
Commit ==
    /\ commits < MaxCommits
    /\ commits' = commits + 1
    /\ log' \in IF file = commits THEN {log, commits} ELSE {log}
    /\ UNCHANGED <<file, dir, pc, cycle, attempt, failures, faults, mem, begun, drill>>

\* A checkpoint copies the log up to where the oldest reader allows.
Checkpoint ==
    /\ \E n \in file + 1..commits : file' = n
    /\ UNCHANGED <<commits, log, dir, pc, cycle, attempt, failures, faults, mem, begun, drill>>

\* The last connection to the source is closed (the server's, or the shipper's
\* own, after its checkpoint or after audit_backup): everything is copied and the
\* log deleted.  During the snapshot the shipper holds one open.
LastClose ==
    /\ pc # "vacuum" /\ <<file, log>> # <<commits, commits>>
    /\ file' = commits /\ log' = commits
    /\ UNCHANGED <<commits, dir, pc, cycle, attempt, failures, faults, mem, begun, drill>>

-----------------------------------------------------------------------------
(* The directory as status, promote-check and a restarting shipper read it *)

\* The signature covers the manifest, the manifest the two artifacts.
verify_follower ==
    /\ manifest # NoFile /\ sig = manifest.id
    /\ base.id = manifest.base
    /\ chunk[manifest.cycle].id = manifest.chunk

ChunksOnDisk == {n \in Cycles : chunk[n] # NoFile}
\* Mutant: the numbering resumes from a torn manifest.
resume_cycle_Manifest == IF manifest # NoFile THEN manifest.cycle ELSE 0
resume_cycle ==
    IF verify_follower THEN manifest.cycle
    ELSE IF ChunksOnDisk = {} THEN 0
    ELSE CHOOSE n \in ChunksOnDisk : \A m \in ChunksOnDisk : m <= n

\* restore: the base must match its checksum file.
restorable == base # NoFile /\ sum = base.id

-----------------------------------------------------------------------------
(* ship_cycle                                                              *)

\* brain standby start or ship: a process that resumes the numbering.
Start ==
    /\ pc = "down"
    /\ pc' = "next" /\ cycle' = resume_cycle /\ failures' = 0
    /\ UNCHANGED <<source, dir, attempt, faults, mem, begun, drill>>

\* The next cycle begins with a passive checkpoint, which a reader can hold off.
Begin ==
    /\ pc = "next" /\ attempt < MaxAttempts
    /\ pc' = "truncate" /\ cycle' = cycle + 1 /\ attempt' = attempt + 1
    /\ begun' = commits
    /\ \E n \in file..commits : file' = n
    /\ UNCHANGED <<commits, log, dir, failures, faults, mem, drill>>

\* snapshot_db: checkpoint and truncate; a busy log is left as it is, without
\* an error.
Truncate ==
    /\ pc = "truncate"
    /\ pc' = "vacuum"
    /\ \/ file' = commits /\ log' = commits
       \/ UNCHANGED <<file, log>>
    /\ UNCHANGED <<commits, dir, cycle, attempt, failures, faults, mem, begun, drill>>

\* Mutant: the page file is copied as it is.
Vacuum_File ==
    /\ pc = "vacuum"
    /\ pc' = "base"
    /\ snap' = [id |-> attempt, upto |-> file]
    /\ UNCHANGED <<source, dir, cycle, attempt, failures, faults, copy, begun, drill>>

\* VACUUM INTO reads one committed state; it is sealed into a temporary file.
Vacuum ==
    /\ pc = "vacuum"
    /\ pc' = "base"
    /\ snap' = [id |-> attempt, upto |-> commits]
    /\ UNCHANGED <<source, dir, cycle, attempt, failures, faults, copy, begun, drill>>

\* The two renames.
PromoteBase ==
    /\ pc = "base"
    /\ pc' = "sum" /\ base' = snap
    /\ UNCHANGED <<source, sum, chunk, manifest, sig, cycle, attempt, failures, faults, mem,
                   begun, drill>>

\* Mutant: the checksum file is left behind.
PromoteSum_Skip ==
    /\ pc = "sum"
    /\ pc' = "read"
    /\ UNCHANGED <<source, dir, cycle, attempt, failures, faults, mem, begun, drill>>

PromoteSum ==
    /\ pc = "sum"
    /\ pc' = "read" /\ sum' = snap.id
    /\ UNCHANGED <<source, base, chunk, manifest, sig, cycle, attempt, failures, faults, mem,
                   begun, drill>>

\* The log as it stands, whole, whatever happened to it since the snapshot; a log
\* that is gone, or that cannot be read, is an empty chunk.
ReadWal ==
    /\ pc = "read"
    /\ pc' = "chunk"
    /\ \E after \in {log, commits} : copy' = [id |-> attempt, after |-> after, upto |-> commits]
    /\ UNCHANGED <<source, dir, cycle, attempt, failures, faults, snap, begun, drill>>

WriteChunk ==
    /\ pc = "chunk"
    /\ pc' = "manifest" /\ chunk' = [chunk EXCEPT ![cycle] = copy]
    /\ UNCHANGED <<source, base, sum, manifest, sig, cycle, attempt, failures, faults, mem,
                   begun, drill>>

\* The manifest hashes the base it finds on disk and the chunk it holds (and
\* carries the history of its attempt).
WriteManifest ==
    /\ pc = "manifest"
    /\ pc' = "sig"
    /\ manifest' = [id |-> attempt, cycle |-> cycle, base |-> base.id, chunk |-> copy.id,
                    begun |-> begun]
    /\ UNCHANGED <<source, base, sum, chunk, sig, cycle, attempt, failures, faults, mem,
                   begun, drill>>

\* Mutant: a signature file that exists is kept.
WriteSig_Keep ==
    /\ pc = "sig"
    /\ pc' = "next" /\ sig' = IF sig = 0 THEN attempt ELSE sig
    /\ failures' = 0
    /\ UNCHANGED <<source, base, sum, chunk, manifest, cycle, attempt, faults, mem,
                   begun, drill>>

WriteSig ==
    /\ pc = "sig"
    /\ pc' = "next" /\ sig' = attempt /\ failures' = 0
    /\ UNCHANGED <<source, base, sum, chunk, manifest, cycle, attempt, faults, mem,
                   begun, drill>>

Shipping == {"truncate", "vacuum", "base", "sum", "read", "chunk", "manifest", "sig"}

Fault ==
    /\ faults < MaxFaults /\ attempt < MaxAttempts
    /\ faults' = faults + 1

\* A step of the cycle returns an error: the loop goes on with the next cycle,
\* and stops after too many in a row.
CycleFails ==
    /\ pc \in Shipping /\ Fault
    /\ failures' = failures + 1
    /\ pc' = IF failures + 1 >= FailureLimit THEN "down" ELSE "next"
    /\ UNCHANGED <<source, dir, cycle, attempt, mem, begun, drill>>

Kill ==
    /\ pc # "down" /\ Fault
    /\ pc' = "down"
    /\ UNCHANGED <<source, dir, cycle, attempt, failures, mem, begun, drill>>

-----------------------------------------------------------------------------
(* promote_check, beside the shipper                                       *)

shipper == <<source, dir, pc, cycle, attempt, failures, faults, mem, begun>>

\* The base is replaced before the manifest that names it, so that the reads of
\* verify_follower agree on one moment.
DrillVerify ==
    /\ drill.pc = "idle" /\ verify_follower
    /\ drill' = [NoDrill EXCEPT !.pc = "verified", !.manifest = manifest]
    /\ UNCHANGED shipper

\* The base is read again by its name, and its checksum with it ...
DrillRestore ==
    /\ drill.pc = "verified"
    /\ drill' = IF restorable THEN [drill EXCEPT !.pc = "restored", !.base = base] ELSE NoDrill
    /\ UNCHANGED shipper

\* ... and then the chunk, to be replayed over it.
DrillReplay ==
    /\ drill.pc = "restored"
    /\ drill' = [drill EXCEPT !.pc = "replayed", !.chunk = chunk[drill.manifest.cycle]]
    /\ UNCHANGED shipper

\* The report is given, or the restored database fails its integrity check.
DrillEnd ==
    /\ drill.pc = "replayed"
    /\ drill' = NoDrill
    /\ UNCHANGED shipper

-----------------------------------------------------------------------------
Init ==
    /\ commits = 0 /\ file = 0 /\ log = 0
    /\ base = NoFile /\ sum = 0 /\ chunk = [n \in Cycles |-> NoFile]
    /\ manifest = NoFile /\ sig = 0
    /\ pc = "down" /\ cycle = 0 /\ attempt = 0 /\ failures = 0 /\ faults = 0
    /\ snap = NoFile /\ copy = NoFile
    /\ begun = 0 /\ drill = NoDrill

Ship == \/ Start \/ Begin \/ Truncate \/ Vacuum \/ PromoteBase \/ PromoteSum \/ ReadWal
        \/ WriteChunk \/ WriteManifest \/ WriteSig
Drill == DrillVerify \/ DrillRestore \/ DrillReplay \/ DrillEnd
Next == \/ Commit \/ Checkpoint \/ LastClose \/ Ship \/ CycleFails \/ Kill \/ Drill

\* The shipper is a loop, restarted by its supervisor; nothing makes the server
\* commit or checkpoint.
Spec == Init /\ [][Next]_vars /\ WF_vars(Ship)

-----------------------------------------------------------------------------
(* Properties                                                              *)

Sealed(kinds) == kinds \cup {NoFile}
BaseFile == [id : Attempts, upto : Commits]
ChunkFile == [id : Attempts, after : Commits, upto : Commits]
ManifestFile == [id : Attempts, cycle : Cycles, base : Attempts, chunk : Attempts,
                 begun : Commits]
DrillState == [pc : {"idle", "verified", "restored", "replayed"},
               manifest : Sealed(ManifestFile), base : Sealed(BaseFile),
               chunk : Sealed(ChunkFile)]

\* Every variable holds a value of its kind, and every file is absent or whole.
TypeOK ==
    /\ commits \in Commits /\ file \in Commits /\ log \in Commits
    /\ base \in Sealed(BaseFile) /\ sum \in 0..MaxAttempts
    /\ chunk \in [Cycles -> Sealed(ChunkFile)]
    /\ manifest \in Sealed(ManifestFile) /\ sig \in 0..MaxAttempts
    /\ pc \in Shipping \cup {"down", "next"}
    /\ cycle \in 0..MaxAttempts /\ attempt \in 0..MaxAttempts
    /\ failures \in Nat /\ faults \in 0..MaxFaults
    /\ snap \in Sealed(BaseFile) /\ copy \in Sealed(ChunkFile)
    /\ begun \in Commits /\ drill \in DrillState

\* A follower that status accepts is one cycle's: the base, its checksum, the
\* chunk, the manifest and the signature were written by the same attempt,
\* wherever earlier attempts were interrupted.
VouchedPair ==
    verify_follower =>
        /\ manifest.base = manifest.id /\ manifest.chunk = manifest.id
        /\ restorable

\* promote-check verifies, restores the base and reads the chunk one after the
\* other while the shipper goes on.  What it restores is never older than the
\* source was when the cycle it verified began, and what it replays is the very
\* chunk which that manifest vouches for.
DrillCovers ==
    drill.pc = "replayed" =>
        /\ drill.base.upto >= drill.manifest.begun
        /\ drill.chunk.id = drill.manifest.id

\* A chunk on disk is never overwritten: the numbering survives torn cycles,
\* failed ones and restarts.
ChunkFresh == [][\A n \in Cycles : chunk[n] # NoFile => chunk'[n] = chunk[n]]_vars

-----------------------------------------------------------------------------
(* An inductive invariant                                                  *)

\* Where the attempt stands tells which files it has written, under its own id.
StageOK ==
    /\ cycle <= attempt /\ base.id <= attempt /\ manifest.id <= attempt
    /\ pc \in Shipping => cycle > 0
    /\ pc \in Shipping \ {"sig"} => manifest.id < attempt
    /\ pc \in {"base", "sum", "read", "chunk", "manifest", "sig"} => snap.id = attempt
    /\ pc \in {"sum", "read", "chunk", "manifest", "sig"} => base = snap
    /\ pc \in {"read", "chunk", "manifest", "sig"} => sum = attempt
    /\ pc \in {"chunk", "manifest", "sig"} => copy.id = attempt
    /\ pc \in {"manifest", "sig"} => chunk[cycle] = copy

\* The base on disk is the one the manifest names.  Whatever a later attempt
\* writes, it replaces the base first, and this fails until its manifest is there.
Paired == manifest # NoFile /\ base.id = manifest.id

ManifestOK ==
    /\ manifest # NoFile => /\ manifest.base = manifest.id /\ manifest.chunk = manifest.id
                            /\ manifest.cycle <= attempt
    /\ Paired => sum = manifest.id

\* No chunk on disk is beyond the numbering, wherever it is resumed from.
NumberingOK ==
    \A n \in Cycles :
        chunk[n] # NoFile =>
            /\ n <= attempt
            /\ pc # "down" => n <= cycle
            /\ pc \in {"truncate", "vacuum", "base", "sum", "read", "chunk"} => n < cycle
            /\ Paired => n <= manifest.cycle

\* The snapshot, the base on disk and what a drill read are not older than the
\* cycles they stand for.
BeginsOK ==
    /\ begun <= commits /\ snap.id <= attempt
    /\ snap.id = attempt /\ snap # NoFile => snap.upto >= begun
    /\ base.id = attempt /\ base # NoFile => base.upto >= begun
    /\ manifest # NoFile => /\ manifest.begun <= begun
                            /\ base # NoFile /\ base.id >= manifest.id
                            /\ base.upto >= manifest.begun
                            /\ chunk[manifest.cycle].id = manifest.id

DrillOK ==
    /\ drill.pc # "idle" =>
          /\ drill.manifest # NoFile /\ drill.manifest.begun <= begun
          /\ chunk[drill.manifest.cycle].id = drill.manifest.id
          /\ base # NoFile /\ base.upto >= drill.manifest.begun
    /\ drill.pc \in {"restored", "replayed"} =>
          /\ drill.base # NoFile /\ drill.base.upto >= drill.manifest.begun
    /\ DrillCovers

StandbyInv == StageOK /\ ManifestOK /\ NumberingOK /\ BeginsOK /\ DrillOK

-----------------------------------------------------------------------------
\* A follower that is torn, or does not exist yet, is whole again later: the next
\* cycle that runs to its end heals it.
Heals == ~verify_follower ~> verify_follower

\* standby.rs: "an interrupted cycle therefore leaves the previous consistent
\* pair".  Once a cycle was completed, a follower without a shipper is whole.
PreviousPairKept == (sig # 0 /\ pc = "down") => verify_follower

\* standby.rs: "data committed inside the cycle lands in the base or the chunk".
InBaseOrChunk == verify_follower => base.upto >= chunk[manifest.cycle].after

\* The base and the chunk that promote-check puts together are one cycle's.
DrillPair == drill.pc = "replayed" => drill.base.id = drill.manifest.id
=============================================================================

---------------------------- MODULE StandbyProofs ----------------------------
(***************************************************************************)
(* For every bound: a follower that status accepts is one cycle's, a       *)
(* promote-check beside a running shipper restores nothing older than the  *)
(* source was when the cycle it verified began and replays the chunk it    *)
(* verified, and no chunk is ever overwritten.  They follow from           *)
(* StandbyInv.                                                             *)
(***************************************************************************)
EXTENDS Standby, WellFoundedInduction, TLAPS

-----------------------------------------------------------------------------
(* Naturals *)

\* A non-empty set of naturals has a least element.
LEMMA LeastNatural ==
    ASSUME NEW S, S \subseteq Nat, S # {}
    PROVE  \E m \in S : \A n \in S : m <= n
<1> DEFINE R == {p \in Nat \X Nat : p[1] < p[2]}
<1>1. IsWellFoundedOn(R, Nat)
  BY NatLessThanWellFounded, Zenon DEF OpToRel
<1>2. \E m \in S : \A n \in S : <<n, m>> \notin R
  <2> HIDE DEF R
  <2> QED
    BY <1>1, WFMin, Zenon
<1>3. \A m, n \in S : n < m => <<n, m>> \in R
  OBVIOUS
<1>4. \E m \in S : \A n \in S : ~(n < m)
  BY <1>2, <1>3, Zenon
<1> QED
  BY <1>4

\* A bounded set of positive naturals that is not empty has a greatest element.
LEMMA GreatestBelow ==
    ASSUME NEW N \in Nat, NEW S, S \subseteq 1..N, S # {}
    PROVE  \E m \in S : \A n \in S : n <= m
<1> DEFINE U == {u \in Nat : \A n \in S : n <= u}
<1>1. U \subseteq Nat /\ U # {}
  <2>1. N \in U
    OBVIOUS
  <2> QED
    BY <2>1
<1>2. PICK m \in U : \A u \in U : m <= u
  <2> HIDE DEF U
  <2> QED
    BY <1>1, LeastNatural
<1>3. m > 0
  <2>1. PICK n \in S : TRUE
    OBVIOUS
  <2>2. n \in 1..N /\ n <= m
    BY <1>2, <2>1
  <2> QED
    BY <1>2, <2>2
<1>4. m - 1 \in Nat /\ m - 1 \notin U
  BY <1>2, <1>3
<1>5. PICK n \in S : ~(n <= m - 1)
  BY <1>4
<1>6. n = m
  BY <1>2, <1>5
<1> QED
  BY <1>2, <1>5, <1>6

-----------------------------------------------------------------------------
(* Files and numbering *)

\* A file is absent, with id 0, or whole, with the id of its attempt.
LEMMA FileIds ==
    ASSUME NEW Kind, NEW f \in Sealed(Kind), \A g \in Kind : g.id \in Attempts
    PROVE  /\ f.id \in 0..MaxAttempts /\ (f = NoFile <=> f.id = 0)
           /\ f.id # 0 => f \in Kind
<1>1. NoFile.id = 0
  BY DEF NoFile
<1>2. CASE f = NoFile
  BY <1>1, <1>2, StandbyAssumption
<1>3. CASE f \in Kind
  BY <1>1, <1>3, StandbyAssumption DEF Attempts
<1> QED
  BY <1>2, <1>3 DEF Sealed

\* ... for each kind of file.
LEMMA Files ==
    /\ \A f \in Sealed(BaseFile) : f.id \in 0..MaxAttempts /\ (f = NoFile <=> f.id = 0)
                                   /\ (f.id # 0 => f \in BaseFile)
    /\ \A f \in Sealed(ChunkFile) : f.id \in 0..MaxAttempts /\ (f = NoFile <=> f.id = 0)
                                    /\ (f.id # 0 => f \in ChunkFile)
    /\ \A f \in Sealed(ManifestFile) : f.id \in 0..MaxAttempts /\ (f = NoFile <=> f.id = 0)
                                       /\ (f.id # 0 => f \in ManifestFile)
<1>1. /\ \A g \in BaseFile : g.id \in Attempts
      /\ \A g \in ChunkFile : g.id \in Attempts
      /\ \A g \in ManifestFile : g.id \in Attempts
  BY DEF BaseFile, ChunkFile, ManifestFile
<1> QED
  BY <1>1, FileIds

\* The ids on disk and in memory, as numbers.
Ids ==
    /\ base.id \in 0..MaxAttempts /\ snap.id \in 0..MaxAttempts
    /\ manifest.id \in 0..MaxAttempts /\ copy.id \in 0..MaxAttempts
    /\ manifest = NoFile <=> manifest.id = 0
    /\ base = NoFile <=> base.id = 0
    /\ cycle \in 0..MaxAttempts /\ attempt \in 0..MaxAttempts
    /\ MaxAttempts \in Nat

\* The types, as the facts on cycle numbers the later steps use.
LEMMA TypedIds ==
    ASSUME TypeOK PROVE Ids
  BY Files, StandbyAssumption DEF TypeOK, Ids

\* The numbering resumes at or after every chunk on disk.
LEMMA Resumes ==
    ASSUME TypeOK, StageOK, ManifestOK, NumberingOK
    PROVE  /\ resume_cycle \in 0..attempt
           /\ \A n \in Cycles : chunk[n] # NoFile => n <= resume_cycle
<1>0. Ids
  BY TypedIds
<1>1. CASE verify_follower
  <2>1. Paired
    BY <1>1 DEF verify_follower, ManifestOK, Paired
  <2>2. manifest \in ManifestFile
    BY <2>1 DEF TypeOK, Paired, Sealed
  <2>3. manifest.cycle \in Cycles /\ manifest.cycle <= attempt
    BY <2>1, <2>2 DEF Paired, ManifestOK, ManifestFile
  <2> QED
    BY <1>0, <1>1, <2>1, <2>3 DEF resume_cycle, NumberingOK, Cycles, Ids
<1>2. CASE ~verify_follower /\ ChunksOnDisk = {}
  BY <1>0, <1>2 DEF resume_cycle, ChunksOnDisk, Ids
<1>3. CASE ~verify_follower /\ ChunksOnDisk # {}
  <2>1. ChunksOnDisk \subseteq 1..attempt /\ attempt \in Nat
    BY <1>0 DEF ChunksOnDisk, NumberingOK, Cycles, Ids
  <2>2. \E n \in ChunksOnDisk : \A m \in ChunksOnDisk : m <= n
    BY <1>3, <2>1, GreatestBelow
  <2>3. resume_cycle \in ChunksOnDisk /\ \A m \in ChunksOnDisk : m <= resume_cycle
    BY <1>3, <2>2, Zenon DEF resume_cycle
  <2>4. resume_cycle \in 0..attempt
    BY <2>1, <2>3
  <2> QED
    BY <2>3, <2>4 DEF ChunksOnDisk
<1> QED
  BY <1>1, <1>2, <1>3

-----------------------------------------------------------------------------
(* Every step keeps the types *)

\* A drill that is under way holds the manifest it verified.
LEMMA TypedDrill ==
    ASSUME TypeOK, StandbyInv, drill.pc # "idle"
    PROVE  /\ drill.manifest \in ManifestFile
           /\ drill.pc \in {"restored", "replayed"} => drill.base \in BaseFile
<1>1. drill.manifest \in Sealed(ManifestFile) /\ drill.base \in Sealed(BaseFile)
  BY DEF TypeOK, DrillState
<1>2. /\ drill.manifest # NoFile
      /\ drill.pc \in {"restored", "replayed"} => drill.base # NoFile
  BY DEF StandbyInv, DrillOK
<1> QED
  BY <1>1, <1>2 DEF Sealed

\* Every step leaves a value of its kind in every variable.
LEMMA TypeStep ==
    ASSUME TypeOK, StandbyInv, Next
    PROVE  TypeOK'
<1>0. Ids /\ StageOK
  BY TypedIds DEF StandbyInv
<1>1. CASE Commit
  BY <1>1, StandbyAssumption DEF Commit, TypeOK, Commits, dir, mem
<1>2. CASE Checkpoint \/ LastClose
  <2>1. file' \in Commits /\ log' \in Commits
    BY <1>2, StandbyAssumption DEF Checkpoint, LastClose, TypeOK, Commits
  <2> QED
    BY <1>2, <2>1 DEF Checkpoint, LastClose, TypeOK, dir, mem
<1>3. CASE Start
  <2>1. cycle' \in 0..MaxAttempts
    BY <1>0, <1>3, Resumes DEF Start, StandbyInv, Ids
  <2> QED
    BY <1>3, <2>1 DEF Start, TypeOK, source, dir, mem
<1>4. CASE Begin
  <2>1. cycle' \in 0..MaxAttempts /\ attempt' \in 0..MaxAttempts
    BY <1>0, <1>4 DEF Begin, Ids, StageOK
  <2>2. file' \in Commits /\ begun' \in Commits
    BY <1>4, StandbyAssumption DEF Begin, TypeOK, Commits
  <2> QED
    BY <1>4, <2>1, <2>2 DEF Begin, TypeOK, dir, mem, Shipping
<1>5. CASE Truncate
  BY <1>5 DEF Truncate, TypeOK, dir, mem, Shipping
<1>6. ASSUME pc \in Shipping PROVE attempt \in Attempts /\ cycle \in Cycles
  BY <1>0, <1>6 DEF Ids, StageOK, Attempts, Cycles
<1>7. CASE Vacuum
  <2>1. attempt \in Attempts
    BY <1>6, <1>7 DEF Vacuum, Shipping
  <2>2. snap' \in BaseFile
    BY <1>7, <2>1 DEF Vacuum, BaseFile, TypeOK
  <2> QED
    BY <1>7, <2>2 DEF Vacuum, TypeOK, source, dir, Shipping, Sealed
<1>8. CASE PromoteBase
  BY <1>8 DEF PromoteBase, TypeOK, source, mem, Shipping
<1>9. CASE PromoteSum
  BY <1>0, <1>9 DEF PromoteSum, TypeOK, source, mem, Shipping, Ids
<1>10. CASE ReadWal
  <2>1. attempt \in Attempts
    BY <1>6, <1>10 DEF ReadWal, Shipping
  <2>2. copy' \in ChunkFile
    BY <1>10, <2>1 DEF ReadWal, ChunkFile, TypeOK
  <2> QED
    BY <1>0, <1>10, <2>2 DEF ReadWal, TypeOK, source, dir, Shipping, Sealed
<1>11. CASE WriteChunk
  <2>1. chunk' \in [Cycles -> Sealed(ChunkFile)]
    BY <1>11 DEF WriteChunk, TypeOK
  <2> QED
    BY <1>11, <2>1 DEF WriteChunk, TypeOK, source, mem, Shipping
<1>12. CASE WriteManifest
  <2>1. attempt \in Attempts /\ cycle \in Cycles
    BY <1>6, <1>12 DEF WriteManifest, Shipping
  <2>2. base.id = attempt /\ copy.id = attempt
    BY <1>0, <1>12 DEF WriteManifest, StageOK
  <2>3. manifest' \in ManifestFile
    BY <1>12, <2>1, <2>2 DEF WriteManifest, ManifestFile, TypeOK
  <2> QED
    BY <1>12, <2>3 DEF WriteManifest, TypeOK, source, mem, Shipping, Sealed
<1>13. CASE WriteSig
  BY <1>0, <1>13 DEF WriteSig, TypeOK, source, mem, Shipping, Ids
<1>14. CASE CycleFails
  <2>1. faults' \in 0..MaxFaults
    BY <1>14, StandbyAssumption DEF CycleFails, Fault, TypeOK
  <2> QED
    BY <1>14, <2>1 DEF CycleFails, TypeOK, source, dir, mem
<1>15. CASE Kill
  <2>1. faults' \in 0..MaxFaults
    BY <1>15, StandbyAssumption DEF Kill, Fault, TypeOK
  <2> QED
    BY <1>15, <2>1 DEF Kill, TypeOK, source, dir, mem
<1>16. CASE Drill
  <2>0. drill \in DrillState /\ base \in Sealed(BaseFile) /\ manifest \in Sealed(ManifestFile)
        /\ chunk \in [Cycles -> Sealed(ChunkFile)] /\ NoDrill \in DrillState
    BY DEF TypeOK, NoDrill, DrillState, Sealed
  <2>5. drill' \in DrillState
    <3>1. CASE DrillVerify
      BY <2>0, <3>1 DEF DrillVerify, DrillState, NoDrill
    <3>2. CASE DrillRestore
      BY <2>0, <3>2 DEF DrillRestore, DrillState
    <3>3. CASE DrillReplay
      <4>1. drill.manifest \in ManifestFile
        BY <3>3, TypedDrill DEF DrillReplay
      <4>2. drill.manifest.cycle \in Cycles
        BY <4>1 DEF ManifestFile
      <4> QED
        BY <2>0, <3>3, <4>2 DEF DrillReplay, DrillState
    <3>4. CASE DrillEnd
      BY <2>0, <3>4 DEF DrillEnd
    <3> QED
      BY <1>16, <3>1, <3>2, <3>3, <3>4 DEF Drill
  <2>6. UNCHANGED shipper
    BY <1>16 DEF Drill, DrillVerify, DrillRestore, DrillReplay, DrillEnd
  <2> QED
    BY <2>5, <2>6 DEF TypeOK, shipper, source, dir, mem
<1> QED
  BY <1>1, <1>2, <1>3, <1>4, <1>5, <1>7, <1>8, <1>9, <1>10, <1>11, <1>12, <1>13, <1>14, <1>15,
     <1>16
  DEF Next, Ship

-----------------------------------------------------------------------------
(* Every step keeps the order of the files *)

\* Steps that leave the directory and the shipper's own state alone.
Elsewhere == UNCHANGED <<dir, pc, cycle, attempt, mem>>

\* The attempt's files are written in order, each under its id.
LEMMA StageStep ==
    ASSUME TypeOK, StandbyInv, Next
    PROVE  StageOK'
<1>0. Ids /\ StageOK
  BY TypedIds DEF StandbyInv
<1>1. CASE Elsewhere
  BY <1>0, <1>1 DEF Elsewhere, dir, mem, StageOK
<1>2. CASE Start
  <2>1. cycle' \in 0..attempt
    BY <1>2, Resumes DEF Start, StandbyInv
  <2> QED
    BY <1>0, <1>2, <2>1 DEF Start, dir, mem, StageOK, Shipping, Ids
<1>3. CASE Begin
  BY <1>0, <1>3 DEF Begin, dir, mem, StageOK, Shipping, Ids
<1>4. CASE Truncate
  BY <1>0, <1>4 DEF Truncate, dir, mem, StageOK, Shipping
<1>5. CASE Vacuum
  BY <1>0, <1>5 DEF Vacuum, dir, StageOK, Shipping
<1>6. CASE PromoteBase
  BY <1>0, <1>6 DEF PromoteBase, mem, StageOK, Shipping, Ids
<1>7. CASE PromoteSum
  BY <1>0, <1>7 DEF PromoteSum, mem, StageOK, Shipping
<1>8. CASE ReadWal
  BY <1>0, <1>8 DEF ReadWal, dir, StageOK, Shipping
<1>9. CASE WriteChunk
  <2>1. cycle \in DOMAIN chunk
    BY <1>0, <1>9 DEF WriteChunk, StageOK, Shipping, Ids, TypeOK, Cycles
  <2> QED
    BY <1>0, <1>9, <2>1 DEF WriteChunk, mem, StageOK, Shipping
<1>10. CASE WriteManifest
  BY <1>0, <1>10 DEF WriteManifest, mem, StageOK, Shipping, Ids
<1>11. CASE WriteSig
  BY <1>0, <1>11 DEF WriteSig, mem, StageOK, Shipping
<1>12. CASE CycleFails
  BY <1>0, <1>12 DEF CycleFails, dir, mem, StageOK, Shipping
<1>13. CASE Kill
  BY <1>0, <1>13 DEF Kill, dir, mem, StageOK, Shipping
<1>14. Commit \/ Checkpoint \/ LastClose \/ Drill => Elsewhere
  BY DEF Commit, Checkpoint, LastClose, Drill, DrillVerify, DrillRestore, DrillReplay, DrillEnd,
         shipper, Elsewhere, dir, mem
<1> QED
  BY <1>1, <1>2, <1>3, <1>4, <1>5, <1>6, <1>7, <1>8, <1>9, <1>10, <1>11, <1>12, <1>13, <1>14
  DEF Next, Ship

\* The manifest names what its own attempt wrote.
LEMMA ManifestStep ==
    ASSUME TypeOK, StandbyInv, Next
    PROVE  ManifestOK'
<1>0. Ids /\ StageOK /\ ManifestOK
  BY TypedIds DEF StandbyInv
<1>1. CASE UNCHANGED <<base, sum, manifest>> /\ attempt' \in {attempt, attempt + 1}
  <2>1. manifest # NoFile => manifest.cycle \in Nat
    BY DEF TypeOK, Sealed, ManifestFile, Cycles
  <2> QED
    BY <1>0, <1>1, <2>1 DEF ManifestOK, Paired, Ids
<1>2. CASE PromoteBase
  <2>1. ~Paired'
    BY <1>0, <1>2 DEF PromoteBase, Paired, StageOK, Shipping, Ids
  <2> QED
    BY <1>0, <1>2, <2>1 DEF PromoteBase, ManifestOK
<1>3. CASE PromoteSum
  <2>1. ~Paired'
    BY <1>0, <1>3 DEF PromoteSum, Paired, StageOK, Shipping, Ids
  <2> QED
    BY <1>0, <1>3, <2>1 DEF PromoteSum, ManifestOK
<1>4. CASE WriteManifest
  BY <1>0, <1>4 DEF WriteManifest, ManifestOK, Paired, StageOK, Ids
<1>5. \/ UNCHANGED <<base, sum, manifest>> /\ attempt' \in {attempt, attempt + 1}
      \/ PromoteBase \/ PromoteSum \/ WriteManifest
  BY DEF Next, Ship, Commit, Checkpoint, LastClose, Start, Begin, Truncate, Vacuum, ReadWal,
         WriteChunk, WriteSig, CycleFails, Kill, Drill, DrillVerify, DrillRestore, DrillReplay,
         DrillEnd, shipper, dir
<1> QED
  BY <1>1, <1>2, <1>3, <1>4, <1>5

\* A chunk is written where there was none, and the manifest follows the chunk.
LEMMA NumberingStep ==
    ASSUME TypeOK, StandbyInv, Next
    PROVE  /\ NumberingOK'
           /\ \A n \in Cycles : chunk[n] # NoFile => chunk'[n] = chunk[n]
<1>0. Ids /\ StageOK /\ ManifestOK /\ NumberingOK
  BY TypedIds DEF StandbyInv
<1>1. CASE UNCHANGED <<chunk, base, manifest, cycle, attempt>>
           /\ (pc' \in {pc, "down", "sig"}
               \/ (pc' = "next" /\ pc # "down")
               \/ <<pc, pc'>> \in {<<"truncate", "vacuum">>, <<"vacuum", "base">>,
                                   <<"sum", "read">>, <<"read", "chunk">>})
           /\ (pc' = "sig" => pc # "down")
  BY <1>1, <1>0 DEF NumberingOK, Paired
<1>2. CASE Start
  <2>1. \A n \in Cycles : chunk[n] # NoFile => n <= cycle'
    BY <1>2, Resumes DEF Start, StandbyInv
  <2> QED
    BY <1>0, <1>2, <2>1 DEF Start, dir, NumberingOK, Paired
<1>3. CASE Begin
  <2>1. \A n \in Cycles : chunk[n] # NoFile => n <= cycle /\ n <= attempt
    BY <1>0, <1>3 DEF Begin, NumberingOK
  <2> QED
    BY <1>0, <1>3, <2>1 DEF Begin, dir, NumberingOK, Paired, Cycles, Ids
<1>4. CASE PromoteBase
  <2>1. ~Paired'
    BY <1>0, <1>4 DEF PromoteBase, Paired, StageOK, Shipping, Ids
  <2> QED
    BY <1>0, <1>4, <2>1 DEF PromoteBase, NumberingOK
<1>5. CASE WriteChunk
  <2>1. ~Paired'
    BY <1>0, <1>5 DEF WriteChunk, Paired, StageOK, Shipping, Ids
  <2>2. cycle \in Cycles /\ cycle <= attempt
    BY <1>0, <1>5 DEF WriteChunk, StageOK, Shipping, Ids, Cycles
  <2>3. chunk[cycle] = NoFile
    BY <1>0, <1>5, <2>2 DEF WriteChunk, NumberingOK, Ids
  <2>4. \A n \in Cycles : n # cycle => chunk'[n] = chunk[n]
    BY <1>5 DEF WriteChunk, TypeOK
  <2>5. \A n \in Cycles : chunk[n] # NoFile => n <= cycle /\ n <= attempt
    BY <1>0, <1>5 DEF WriteChunk, NumberingOK, Cycles, Ids
  <2>6. \A n \in Cycles : chunk'[n] # NoFile => n <= cycle /\ n <= attempt
    BY <1>0, <2>2, <2>4, <2>5 DEF Ids
  <2> QED
    BY <1>5, <2>1, <2>3, <2>4, <2>6 DEF WriteChunk, NumberingOK
<1>6. CASE WriteManifest
  <2>1. \A n \in Cycles : chunk[n] # NoFile => n <= cycle /\ n <= attempt
    BY <1>0, <1>6 DEF WriteManifest, NumberingOK
  <2> QED
    BY <1>6, <2>1 DEF WriteManifest, NumberingOK
<1>7. CASE \/ Truncate \/ Vacuum \/ PromoteSum \/ ReadWal \/ WriteSig \/ CycleFails \/ Kill
           \/ Checkpoint \/ Commit \/ LastClose
  BY <1>1, <1>7 DEF Truncate, Vacuum, PromoteSum, ReadWal, WriteSig, CycleFails, Kill, Checkpoint,
                    Commit, LastClose, dir, Shipping
<1>8. CASE Drill
  BY <1>1, <1>8 DEF Drill, DrillVerify, DrillRestore, DrillReplay, DrillEnd, shipper, dir
<1> QED
  BY <1>2, <1>3, <1>4, <1>5, <1>6, <1>7, <1>8 DEF Next, Ship

-----------------------------------------------------------------------------
(* The copies and the drill *)

\* The numbers the bounds of BeginsOK and DrillOK compare.
LEMMA Numbers ==
    ASSUME TypeOK
    PROVE  /\ commits \in Nat /\ begun \in Nat /\ attempt \in Nat
           /\ snap # NoFile => snap.upto \in Nat /\ snap.id \in Nat \ {0}
           /\ base # NoFile => base.upto \in Nat /\ base.id \in Nat \ {0}
           /\ manifest # NoFile => /\ manifest.begun \in Nat /\ manifest.id \in Nat \ {0}
                                   /\ manifest.cycle \in Cycles
<1>1. commits \in Nat /\ begun \in Nat /\ attempt \in Nat
  BY StandbyAssumption DEF TypeOK, Commits
<1>2. /\ snap # NoFile => snap \in BaseFile
      /\ base # NoFile => base \in BaseFile
      /\ manifest # NoFile => manifest \in ManifestFile
  BY DEF TypeOK, Sealed
<1> QED
  BY <1>1, <1>2 DEF BaseFile, ManifestFile, Attempts, Commits

\* A base is as new as the cycle that wrote it began, and no later one is older.
LEMMA BeginsStep ==
    ASSUME TypeOK, StandbyInv, Next
    PROVE  BeginsOK' /\ begun <= begun'
<1>0. Ids /\ StageOK /\ ManifestOK /\ BeginsOK
  BY TypedIds DEF StandbyInv
<1>1. CASE UNCHANGED <<base, chunk, manifest, begun, attempt, snap>> /\ commits <= commits'
  <2>1. commits' \in Nat
    BY TypeStep, StandbyAssumption DEF TypeOK, Commits
  <2> QED
    BY <1>0, <1>1, <2>1, Numbers DEF BeginsOK
<1>2. CASE Begin
  <2>1. /\ UNCHANGED <<base, chunk, manifest, snap, commits>>
        /\ begun' = commits /\ attempt' = attempt + 1
    BY <1>2 DEF Begin, dir, mem
  <2>2. base.id # attempt + 1 /\ snap.id # attempt + 1 /\ snap.id <= attempt + 1
    BY <1>0 DEF StageOK, BeginsOK, Ids
  <2> QED
    BY <1>0, <2>1, <2>2, Numbers DEF BeginsOK
<1>3. CASE Vacuum
  <2>1. /\ UNCHANGED <<base, chunk, manifest, begun, attempt, commits>>
        /\ snap'.id = attempt /\ snap'.upto = commits
    BY <1>3 DEF Vacuum, dir, source
  <2> QED
    BY <1>0, <2>1, Numbers DEF BeginsOK
<1>4. CASE PromoteBase
  <2>1. UNCHANGED <<chunk, manifest, snap, begun, attempt, commits>> /\ base' = snap
    BY <1>4 DEF PromoteBase, mem, source
  <2>2. snap.id = attempt /\ attempt > 0 /\ snap # NoFile /\ manifest.id < attempt
    BY <1>0, <1>4 DEF PromoteBase, StageOK, Shipping, Ids, NoFile
  <2> QED
    BY <1>0, <2>1, <2>2, Numbers DEF BeginsOK
<1>5. CASE WriteChunk
  <2>1. UNCHANGED <<base, manifest, snap, begun, attempt, commits>>
    BY <1>5 DEF WriteChunk, mem, source
  <2>2. ASSUME manifest # NoFile PROVE chunk'[manifest.cycle] = chunk[manifest.cycle]
    <3>1. manifest.cycle \in Cycles /\ chunk[manifest.cycle].id # NoFile.id
      BY <1>0, <2>2, Numbers DEF BeginsOK, NoFile
    <3> QED
      BY <3>1, NumberingStep
  <2> QED
    BY <1>0, <2>1, <2>2, Numbers DEF BeginsOK
<1>6. CASE WriteManifest
  <2>1. /\ UNCHANGED <<base, chunk, snap, begun, attempt, commits>>
        /\ manifest'.id = attempt /\ manifest'.begun = begun /\ manifest'.cycle = cycle
    BY <1>6 DEF WriteManifest, mem, source
  <2>2. base = snap /\ snap.id = attempt /\ attempt > 0 /\ chunk[cycle].id = attempt
    BY <1>0, <1>6 DEF WriteManifest, StageOK, Shipping, Ids
  <2>3. base # NoFile
    BY <2>2, <1>0 DEF NoFile, Ids
  <2> QED
    BY <1>0, <2>1, <2>2, <2>3, Numbers DEF BeginsOK
<1>7. \/ UNCHANGED <<base, chunk, manifest, begun, attempt, snap>> /\ commits <= commits'
      \/ Begin \/ Vacuum \/ PromoteBase \/ WriteChunk \/ WriteManifest
  <2>1. commits \in Nat
    BY Numbers
  <2>2. CASE Commit \/ Checkpoint \/ LastClose
    BY <2>1, <2>2 DEF Commit, Checkpoint, LastClose, dir, mem
  <2>3. CASE Start \/ Truncate \/ PromoteSum \/ ReadWal \/ WriteSig \/ CycleFails \/ Kill
    BY <2>1, <2>3 DEF Start, Truncate, PromoteSum, ReadWal, WriteSig, CycleFails, Kill, source,
                      dir, mem
  <2>4. CASE Drill
    BY <2>1, <2>4 DEF Drill, DrillVerify, DrillRestore, DrillReplay, DrillEnd, shipper, source,
                      dir, mem
  <2> QED
    BY <2>2, <2>3, <2>4 DEF Next, Ship
<1>8. begun <= begun'
  <2>1. begun' = begun \/ begun' = commits
    BY <1>7 DEF Begin, Vacuum, PromoteBase, WriteChunk, WriteManifest
  <2> QED
    BY <1>0, <2>1, Numbers DEF BeginsOK
<1> QED
  BY <1>1, <1>2, <1>3, <1>4, <1>5, <1>6, <1>7, <1>8

\* What a drill that is under way has read stays as good as it was: the base is
\* only replaced by one of a later cycle, and the chunk is not replaced at all.
LEMMA DrillStep ==
    ASSUME TypeOK, StandbyInv, Next
    PROVE  DrillOK'
<1>0. Ids /\ StageOK /\ ManifestOK /\ BeginsOK /\ DrillOK
  BY TypedIds DEF StandbyInv
<1>n. begun \in Nat /\ begun' \in Nat /\ begun <= begun'
  BY Numbers, TypeStep, BeginsStep, StandbyAssumption DEF TypeOK, Commits
<1>1. CASE Drill
  <2>0. UNCHANGED <<base, chunk, manifest, begun>>
    BY <1>1 DEF Drill, DrillVerify, DrillRestore, DrillReplay, DrillEnd, shipper, dir
  <2>1. CASE drill' = NoDrill
    BY <2>1 DEF NoDrill, DrillOK, DrillCovers
  <2>2. CASE DrillVerify
    <3>1. drill'.pc = "verified" /\ drill'.manifest = manifest /\ manifest # NoFile
      BY <2>2 DEF DrillVerify, NoDrill, verify_follower
    <3> QED
      BY <1>0, <2>0, <3>1 DEF BeginsOK, DrillOK, DrillCovers
  <2>3. CASE DrillRestore /\ restorable
    <3>1. drill.pc = "verified" /\ drill'.pc = "restored" /\ drill'.base = base
          /\ drill'.manifest = drill.manifest /\ base # NoFile
      BY <2>3 DEF DrillRestore, restorable, TypeOK, DrillState
    <3> QED
      BY <1>0, <2>0, <3>1 DEF DrillOK, DrillCovers
  <2>4. CASE DrillReplay
    <3>1. drill.pc = "restored" /\ drill'.pc = "replayed" /\ drill'.base = drill.base
          /\ drill'.manifest = drill.manifest
          /\ drill'.chunk = chunk[drill.manifest.cycle]
      BY <2>4 DEF DrillReplay, TypeOK, DrillState
    <3> QED
      BY <1>0, <2>0, <3>1 DEF DrillOK, DrillCovers
  <2> QED
    BY <1>1, <2>1, <2>2, <2>3, <2>4 DEF Drill, DrillRestore, DrillEnd
<1>2. CASE drill' = drill
  <2> SUFFICES ASSUME drill.pc # "idle" PROVE DrillOK'
    BY <1>2 DEF DrillOK, DrillCovers
  <2>0. /\ drill.manifest \in ManifestFile
        /\ drill.manifest.begun \in Nat /\ drill.manifest.cycle \in Cycles
        /\ drill.manifest.id # NoFile.id
    <3>1. drill.manifest \in ManifestFile
      BY TypedDrill
    <3> QED
      BY <3>1 DEF ManifestFile, Commits, Attempts, NoFile
  <2>1. chunk'[drill.manifest.cycle] = chunk[drill.manifest.cycle]
    <3>1. chunk[drill.manifest.cycle] # NoFile
      BY <1>0, <2>0 DEF DrillOK
    <3> QED
      BY <2>0, <3>1, NumberingStep
  <2>2. base' # NoFile /\ base'.upto >= drill.manifest.begun
    <3>1. CASE base' = base
      BY <1>0, <3>1 DEF DrillOK
    <3>2. CASE PromoteBase
      <4>1. base' = snap /\ snap.id = attempt /\ attempt > 0 /\ snap # NoFile
        BY <1>0, <3>2 DEF PromoteBase, StageOK, Shipping, Ids, NoFile
      <4>2. snap.upto >= begun /\ snap.upto \in Nat /\ drill.manifest.begun <= begun
        BY <1>0, <4>1, Numbers DEF BeginsOK, DrillOK
      <4> QED
        BY <1>n, <2>0, <4>1, <4>2
    <3>3. base' = base \/ PromoteBase
      BY DEF Next, Ship, Commit, Checkpoint, LastClose, Start, Begin, Truncate, Vacuum, PromoteSum,
             ReadWal, WriteChunk, WriteManifest, WriteSig, CycleFails, Kill, Drill, DrillVerify,
             DrillRestore, DrillReplay, DrillEnd, shipper, dir
    <3> QED
      BY <3>1, <3>2, <3>3
  <2>3. drill.manifest.begun <= begun'
    BY <1>0, <1>n, <2>0 DEF DrillOK
  <2> QED
    BY <1>0, <1>2, <2>1, <2>2, <2>3 DEF DrillOK, DrillCovers
<1>3. Drill \/ drill' = drill
  BY DEF Next, Ship, Commit, Checkpoint, LastClose, Start, Begin, Truncate, Vacuum, PromoteBase,
         PromoteSum, ReadWal, WriteChunk, WriteManifest, WriteSig, CycleFails, Kill
<1> QED
  BY <1>1, <1>2, <1>3

-----------------------------------------------------------------------------
(* The theorems *)

\* The first state satisfies the invariant.
LEMMA StandbyInit ==
    ASSUME Init PROVE TypeOK /\ StandbyInv
<1>1. TypeOK
  <2>1. chunk \in [Cycles -> Sealed(ChunkFile)]
    BY DEF Init, Sealed
  <2>2. 0 \in Commits /\ 0 \in 0..MaxAttempts /\ 0 \in 0..MaxFaults
    BY StandbyAssumption DEF Commits
  <2>3. base \in Sealed(BaseFile) /\ snap \in Sealed(BaseFile) /\ copy \in Sealed(ChunkFile)
        /\ manifest \in Sealed(ManifestFile)
    BY DEF Init, Sealed
  <2>4. drill \in DrillState
    BY DEF Init, NoDrill, DrillState, Sealed
  <2> QED
    BY <2>1, <2>2, <2>3, <2>4 DEF Init, TypeOK
<1>2. StageOK /\ ManifestOK /\ NumberingOK
  BY DEF Init, StageOK, ManifestOK, NumberingOK, Paired, NoFile, Shipping
<1>3. BeginsOK /\ DrillOK
  BY DEF Init, BeginsOK, DrillOK, DrillCovers, NoDrill, NoFile
<1> QED
  BY <1>1, <1>2, <1>3 DEF StandbyInv

\* ... and every step keeps it.
LEMMA StandbyStep ==
    ASSUME TypeOK, StandbyInv, [Next]_vars
    PROVE  TypeOK' /\ StandbyInv'
<1>1. CASE Next
  BY <1>1, TypeStep, StageStep, ManifestStep, NumberingStep, BeginsStep, DrillStep
  DEF StandbyInv
<1>2. CASE UNCHANGED vars
  BY <1>2 DEF vars, TypeOK, StandbyInv, StageOK, ManifestOK, NumberingOK, BeginsOK, DrillOK,
              DrillCovers, Paired
<1> QED
  BY <1>1, <1>2

\* Every variable of the shipper, the source and the directory keeps its type:
\* in particular no file is ever half written, and a cycle number never outgrows
\* the number of attempts.
THEOREM StandbyTypeCorrect == Spec => []TypeOK
<1>1. Init => TypeOK /\ StandbyInv
  BY StandbyInit
<1>2. TypeOK /\ StandbyInv /\ [Next]_vars => (TypeOK /\ StandbyInv)'
  BY StandbyStep
<1> QED
  BY <1>1, <1>2, PTL DEF Spec

\* Wherever ship_cycle was interrupted and however often it was restarted, a
\* follower that verify_follower accepts was written by one attempt, and its base
\* matches its checksum.
THEOREM VouchedPairHolds == Spec => []VouchedPair
<1>1. TypeOK /\ StandbyInv => VouchedPair
  <2> SUFFICES ASSUME TypeOK, StandbyInv, verify_follower
               PROVE  manifest.base = manifest.id /\ manifest.chunk = manifest.id /\ restorable
    BY DEF VouchedPair
  <2>1. Ids /\ ManifestOK
    BY TypedIds DEF StandbyInv
  <2>2. Paired
    BY <2>1 DEF verify_follower, ManifestOK, Paired
  <2> QED
    BY <2>1, <2>2 DEF ManifestOK, Paired, restorable, Ids
<1>2. Init => TypeOK /\ StandbyInv
  BY StandbyInit
<1>3. TypeOK /\ StandbyInv /\ [Next]_vars => (TypeOK /\ StandbyInv)'
  BY StandbyStep
<1> QED
  BY <1>1, <1>2, <1>3, PTL DEF Spec

\* However far the shipper goes on between the steps of promote_check, the base
\* it restores is not older than the source was when the verified cycle began, and
\* the chunk it replays is the one it verified.
THEOREM DrillCoversHolds == Spec => []DrillCovers
<1>1. TypeOK /\ StandbyInv => DrillCovers
  BY DEF StandbyInv, DrillOK
<1>2. Init => TypeOK /\ StandbyInv
  BY StandbyInit
<1>3. TypeOK /\ StandbyInv /\ [Next]_vars => (TypeOK /\ StandbyInv)'
  BY StandbyStep
<1> QED
  BY <1>1, <1>2, <1>3, PTL DEF Spec

\* The numbering resume_cycle finds is beyond every chunk on disk, so WriteChunk
\* never overwrites one.
THEOREM ChunkFreshHolds == Spec => ChunkFresh
<1>1. TypeOK /\ StandbyInv /\ [Next]_vars =>
          [\A n \in Cycles : chunk[n] # NoFile => chunk'[n] = chunk[n]]_vars
  <2> SUFFICES ASSUME TypeOK, StandbyInv, Next
               PROVE  \A n \in Cycles : chunk[n] # NoFile => chunk'[n] = chunk[n]
    OBVIOUS
  <2> QED
    BY NumberingStep
<1>2. Init => TypeOK /\ StandbyInv
  BY StandbyInit
<1>3. TypeOK /\ StandbyInv /\ [Next]_vars => (TypeOK /\ StandbyInv)'
  BY StandbyStep
<1> QED
  BY <1>1, <1>2, <1>3, PTL DEF Spec, ChunkFresh
=============================================================================

---------------------------- MODULE LocalIndex ----------------------------
(***************************************************************************)
(* Where a worker with --data-dir reads a sample: what staging decides,    *)
(* the index of the directory and its caches, the file system underneath,  *)
(* and the download that is left.  stage_payload, locate, LocalFileIndex,  *)
(* resolve_on_disk and the start of run_job in src/src/worker.rs.          *)
(*                                                                         *)
(* Files change while jobs look for them.  A file is the digest of its     *)
(* bytes and the time of its last change, which no two contents share.  A  *)
(* candidate's metadata is read before its bytes are hashed, and its path  *)
(* is opened once more when it is analyzed.                                *)
(***************************************************************************)
EXTENDS Integers, Sequences, FiniteSets, SequencesExt

CONSTANTS
    Files,       \* paths under the root, in the order of their FileIds
    Digests,
    Gone,        \* there is no file at the path
    SizeOf,      \* [Digests -> sizes]: what hopper says of a sample
    NameOf,      \* [Files -> names]: parent directory and basename
    Lookers,     \* jobs
    WantOf,      \* [Lookers -> Digests]
    PathOf,      \* [Lookers -> Files]: where hopper says the sample is
    MaxWrites    \* bound: changes of the files

ASSUME IndexAssumption ==
    /\ Files \in Seq(Range(Files)) /\ MaxWrites \in Nat
    /\ Gone \notin Digests \cup Range(Files)
    /\ WantOf \in [Lookers -> Digests] /\ PathOf \in [Lookers -> Range(Files)]

VARIABLES
    liFile,      \* the file system: [bytes, changed] by path
    liWrites,    \* changes so far
    liIndex,     \* the files of the walk with their sizes; <<>> until it has ended
    liReady,     \* no, walked, or yes: local_index is set
    liVerified,  \* verified_by_sha256
    liCache,     \* hash_cache: [changed, size, digest], written once
    liJob,       \* a job: see NewJob
    liHeld       \* history of a job: the files that had its digest during its search,
                 \* and those that had it all along

indexVars == <<liFile, liWrites, liIndex, liReady, liVerified, liCache, liJob, liHeld>>

Paths == Range(Files)
Exists(f) == liFile[f].bytes # Gone
SizeAt(f) == SizeOf[liFile[f].bytes]

\* What staging left, the candidates still to try, the one being hashed, and what
\* the job reads in the end: a path, "download", or why it failed.
NewJob == [pc |-> "claimed", staged |-> "none", queue |-> {}, verified |-> FALSE,
           stat |-> 0, reads |-> Gone]

IndexInit ==
    /\ liFile \in [Paths -> [bytes : Digests \cup {Gone}, changed : {0}]]
    /\ liWrites = 0
    /\ liIndex = <<>> /\ liReady = "no"
    /\ liVerified = [d \in Digests |-> Gone]
    /\ liCache = [f \in Paths |-> Gone]
    /\ liJob = [j \in Lookers |-> NewJob]
    /\ liHeld = [j \in Lookers |-> [once |-> {}, throughout |-> {}]]

JobIs(j, pc) == liJob[j].pc = pc

----------------------------------------------------------------------------
(* The file system and the walk                                            *)

\* A file is written, moved here or taken away.
Change(f, bytes) ==
    /\ liWrites < MaxWrites /\ liFile[f].bytes # bytes
    /\ liWrites' = liWrites + 1
    /\ liFile' = [liFile EXCEPT ![f] = [bytes |-> bytes, changed |-> liWrites + 1]]
    /\ liHeld' = [j \in Lookers |->
            [once |-> liHeld[j].once \cup IF bytes = WantOf[j] THEN {f} ELSE {},
             throughout |-> liHeld[j].throughout \ {f}]]
    /\ UNCHANGED <<liIndex, liReady, liVerified, liCache, liJob>>

\* LocalFileIndex::build has walked the root, while the worker already runs.
Walk ==
    /\ liReady = "no" /\ liReady' = "walked"
    /\ LET found == {f \in Paths : Exists(f)} IN
       liIndex' = [f \in found |-> SizeAt(f)]
    /\ UNCHANGED <<liFile, liWrites, liVerified, liCache, liJob, liHeld>>

Publish ==
    /\ liReady = "walked" /\ liReady' = "yes"
    /\ UNCHANGED <<liFile, liWrites, liIndex, liVerified, liCache, liJob, liHeld>>

----------------------------------------------------------------------------
(* Staging                                                                 *)

\* stage_payload: a file at the recorded path is taken to be the sample; else the
\* payload is downloaded, which may fail.
Stage(j, downloaded) ==
    /\ JobIs(j, "claimed")
    /\ liJob' = [liJob EXCEPT ![j] = [@ EXCEPT !.pc = "search",
            !.staged = IF Exists(PathOf[j]) THEN "local"
                       ELSE IF downloaded THEN "bytes" ELSE "transient"]]
    /\ liHeld' = [liHeld EXCEPT ![j] =
            LET now == {f \in Paths : liFile[f].bytes = WantOf[j]} IN
            [once |-> now, throughout |-> now]]
    /\ UNCHANGED <<liFile, liWrites, liIndex, liReady, liVerified, liCache>>

----------------------------------------------------------------------------
(* locate and LocalFileIndex::resolve                                      *)

\* The indexed files the names lead to: the one at the recorded path if it is there,
\* and those of the same name that had the right size.
Candidates(j) ==
    LET p == PathOf[j] IN
    {f \in DOMAIN liIndex :
        \/ f = p /\ Exists(p)
        \/ NameOf[f] = NameOf[p] /\ liIndex[f] = SizeOf[WantOf[j]]}

\* They are tried in the order of their ids.
FirstOf(paths) == Files[Min({id \in DOMAIN Files : Files[id] \in paths})]
Tried(j) == FirstOf(liJob[j].queue)

Search(j) ==
    /\ JobIs(j, "search")
    /\ LET hit == liVerified[WantOf[j]] IN
       liJob' = [liJob EXCEPT ![j] =
            IF liReady # "yes" THEN [@ EXCEPT !.pc = "disk"]
            ELSE IF hit # Gone THEN [@ EXCEPT !.pc = "stat", !.queue = {hit}, !.verified = TRUE]
            ELSE [@ EXCEPT !.pc = "stat", !.queue = Candidates(j)]]
    /\ UNCHANGED <<liFile, liWrites, liIndex, liReady, liVerified, liCache, liHeld>>

\* The search has an answer: a path is remembered for its digest.
Found(j, f) ==
    /\ liJob' = [liJob EXCEPT ![j] = [NewJob EXCEPT !.pc = "ended", !.reads = f]]
    /\ liVerified' = [liVerified EXCEPT ![WantOf[j]] = f]

\* The candidate is not it: the cached path is forgotten and the names are tried,
\* else the next of them, else the disk.
NotThis(j) ==
    IF liJob[j].verified
    THEN /\ liVerified' = [liVerified EXCEPT ![WantOf[j]] = Gone]
         /\ liJob' = [liJob EXCEPT ![j] =
                [@ EXCEPT !.pc = "stat", !.queue = Candidates(j), !.verified = FALSE]]
    ELSE /\ liJob' = [liJob EXCEPT ![j] =
                [@ EXCEPT !.pc = "stat", !.queue = liJob[j].queue \ {Tried(j)}]]
         /\ UNCHANGED liVerified

\* Mutation: a file of the cached size is the cached file.
CacheBySize(f) == liCache[f] # Gone /\ liCache[f].size = SizeAt(f)

\* The cached hash counts while size and time of change are those of then.
CacheHolds(f) ==
    /\ liCache[f] # Gone
    /\ liCache[f].size = SizeAt(f) /\ liCache[f].changed = liFile[f].changed

\* file_matches_sha256, up to the hash: the metadata, and the cache.
StatFile(j) ==
    /\ JobIs(j, "stat") /\ liJob[j].queue # {}
    /\ LET f == Tried(j) IN
       CASE ~Exists(f) -> NotThis(j)
         [] Exists(f) /\ CacheHolds(f) ->
              IF liCache[f].digest = WantOf[j] THEN Found(j, f) ELSE NotThis(j)
         [] OTHER ->
              /\ liJob' = [liJob EXCEPT ![j] = [@ EXCEPT !.pc = "hash", !.stat =
                    [size |-> SizeAt(f), changed |-> liFile[f].changed]]]
              /\ UNCHANGED liVerified
    /\ UNCHANGED <<liFile, liWrites, liIndex, liReady, liCache, liHeld>>

Fails(j, why) == liJob' = [liJob EXCEPT ![j] = [NewJob EXCEPT !.pc = "failed", !.staged = why]]

\* The bytes are hashed; a file that went after its metadata was read is an error,
\* and the error is the job's.  The first hash of a file is cached for good.
HashFile(j) ==
    /\ JobIs(j, "hash")
    /\ LET f == Tried(j)
           digest == liFile[f].bytes IN
       IF ~Exists(f) THEN Fails(j, "unreadable") /\ UNCHANGED <<liVerified, liCache>>
       ELSE /\ liCache' = IF liCache[f] # Gone THEN liCache
                          ELSE [liCache EXCEPT ![f] = [size |-> liJob[j].stat.size,
                                    changed |-> liJob[j].stat.changed, digest |-> digest]]
            /\ IF digest = WantOf[j] THEN Found(j, f) ELSE NotThis(j)
    /\ UNCHANGED <<liFile, liWrites, liIndex, liReady, liHeld>>

\* resolve_on_disk: the recorded path itself, if its bytes have the digest.
OnDisk(j) == IF liFile[PathOf[j]].bytes = WantOf[j] THEN PathOf[j] ELSE Gone

\* What a job without a path does: what staging brought, or a download now, which
\* may fail.  What was staged as local was never downloaded.
WithoutAPath(j, downloaded) ==
    CASE liJob[j].staged = "local" -> Fails(j, "nothing to read")
      [] liJob[j].staged = "transient" /\ ~downloaded -> Fails(j, "network")
      [] OTHER -> liJob' = [liJob EXCEPT ![j] =
                        [NewJob EXCEPT !.pc = "ended", !.staged = "bytes"]]

ReadDisk(j, downloaded) ==
    /\ JobIs(j, "disk") \/ (JobIs(j, "stat") /\ liJob[j].queue = {})
    /\ IF OnDisk(j) # Gone
       THEN liJob' = [liJob EXCEPT ![j] = [NewJob EXCEPT !.pc = "ended", !.reads = OnDisk(j)]]
       ELSE WithoutAPath(j, downloaded)
    /\ UNCHANGED <<liFile, liWrites, liIndex, liReady, liVerified, liCache, liHeld>>

\* Another job of the same sample.
NextJob(j) ==
    /\ JobIs(j, "ended") \/ JobIs(j, "failed")
    /\ liJob' = [liJob EXCEPT ![j] = NewJob]
    /\ liHeld' = [liHeld EXCEPT ![j] = [once |-> {}, throughout |-> {}]]
    /\ UNCHANGED <<liFile, liWrites, liIndex, liReady, liVerified, liCache>>

IndexNext ==
    \/ \E f \in Paths, bytes \in Digests \cup {Gone} : Change(f, bytes)
    \/ Walk \/ Publish
    \/ \E j \in Lookers :
          \/ Search(j) \/ StatFile(j) \/ HashFile(j) \/ NextJob(j)
          \/ \E downloaded \in BOOLEAN : Stage(j, downloaded) \/ ReadDisk(j, downloaded)

IndexSpec == IndexInit /\ [][IndexNext]_indexVars

----------------------------------------------------------------------------
(* Properties                                                              *)

\* A path a job is given had the sample's digest at some moment of its search:
\* neither a cached hash nor a remembered path outlives the bytes it is of.
PathHadTheDigest ==
    \A j \in Lookers : JobIs(j, "ended") /\ liJob[j].reads # Gone =>
        liJob[j].reads \in liHeld[j].once

\* A sample that lies where hopper says, from its staging on, is read there or from
\* another copy: an index that does not know it does not hide it.  (Another copy
\* that goes while it is looked at fails the job, see MissIsDownloaded.)
SampleInPlaceIsRead ==
    \A j \in Lookers : PathOf[j] \in liHeld[j].throughout =>
        /\ JobIs(j, "ended") => liJob[j].reads # Gone
        /\ JobIs(j, "failed") => liJob[j].staged = "unreadable"

\* The doc of run_job: failing the index and the directory, a sample is downloaded
\* from hopper.  Only the download would then fail a job for want of its bytes.
MissIsDownloaded ==
    \A j \in Lookers : JobIs(j, "failed") => liJob[j].staged = "network"

\* The index is an accelerator: it never gives a job other bytes, and hides none.
IndexFindsTheSample == PathHadTheDigest /\ SampleInPlaceIsRead
=============================================================================

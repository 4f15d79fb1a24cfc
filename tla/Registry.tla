------------------------------- MODULE Registry -------------------------------
(***************************************************************************)
(* The registry of dataset regions: one JSON file that the command line    *)
(* rewrites in place, and the parse of it that the threads of a server     *)
(* share without a lock and renew when the file's mtime has changed.       *)
(***************************************************************************)
EXTENDS Integers, FiniteSets, Sequences, SequencesExt

CONSTANTS
  Regions,    \* keys of the registry
  Upserts,    \* runs of the command line that upsert a region
  Readers,    \* threads of the server
  Shipped,    \* the entry of the region in the file that is shipped
  MaxDeaths   \* bound: how many upserts may die, or fail, while they write

ASSUME RegistryAssumption ==
  /\ Shipped \notin Upserts
  /\ MaxDeaths \in Nat

VARIABLES
  regFile,   \* the file: its state, content and mtime
  regCache,  \* the parse and mtime that the server's threads share
  server,    \* the server's one call of load()
  reader,    \* reader[t]: the access of thread t
  upsert,    \* upsert[u]: the run u
  writes,    \* history: the upserts, in the order in which they have written
  raced      \* history: the parse comes from a load that overlapped a write,
             \* or from overlapping reloads

regVars == <<regFile, regCache, server, reader, upsert, writes, raced>>

(* Entries of a content are named by the upsert that wrote them.           *)
NoEntry == "none"
NoRegion == "none"
(* No entry and no region are none of the others.                         *)
ASSUME RegistryNames == NoEntry \notin Upserts \cup {Shipped} /\ NoRegion \notin Regions
Content == [default : Regions \cup {NoRegion},
            datasets : [Regions -> Upserts \cup {Shipped, NoEntry}]]
Blank == [default |-> NoRegion, datasets |-> [r \in Regions |-> NoEntry]]
(* Only a whole file parses; what a torn one holds is neither one text nor *)
(* the other.  Two writes never leave the same mtime.                      *)
File == [state : {"missing", "empty", "torn", "whole"}, content : Content, mtime : Nat]
Unparsable == {"empty", "torn"}
Reader == [pc : {"idle", "read", "stamp"}, mtime : Nat]

(* base, cut: how many upserts had written when this one loaded the file,  *)
(* and when it emptied it.                                                 *)
Upsert == [pc : {"new", "loaded", "truncated", "done", "failed", "died"},
           region : Regions \cup {NoRegion}, data : Content, base : Nat, cut : Nat]
NewUpsert == [pc |-> "new", region |-> NoRegion, data |-> Blank, base |-> 0, cut |-> 0]

ShippedFile(r) ==
  [state |-> "whole", mtime |-> 1,
   content |-> [default |-> r, datasets |-> [Blank.datasets EXCEPT ![r] = Shipped]]]

RegistryInit ==
  /\ regFile \in {ShippedFile(r) : r \in Regions}
                   \cup {[state |-> "missing", content |-> Blank, mtime |-> 0]}
  /\ regCache = [content |-> Blank, mtime |-> 0]
  /\ server = "down"
  /\ reader = [t \in Readers |-> [pc |-> "idle", mtime |-> 0]]
  /\ upsert = [u \in Upserts |-> NewUpsert]
  /\ writes = <<>>
  /\ raced = FALSE

----------------------------------------------------------------------------
(* upsert_region in a process of its own: a missing file is begun anew.    *)
Edited(data, u, r, setDefault) ==
  [default |-> IF setDefault \/ data.default = NoRegion THEN r ELSE data.default,
   datasets |-> [data.datasets EXCEPT ![r] = u]]

(* Faulty variant: the file on disk is not loaded before it is rewritten.  *)
LoadToUpsertBlank(u, r, setDefault) ==
  /\ upsert[u].pc = "new"
  /\ regFile.state \notin Unparsable
  /\ upsert' = [upsert EXCEPT ![u] = [pc |-> "loaded", region |-> r,
                                      data |-> Edited(Blank, u, r, setDefault),
                                      base |-> Len(writes), cut |-> 0]]
  /\ UNCHANGED <<regFile, regCache, server, reader, writes, raced>>
LoadToUpsert(u, r, setDefault) ==
  /\ upsert[u].pc = "new"
  /\ regFile.state \notin Unparsable
  /\ upsert' = [upsert EXCEPT ![u] = [pc |-> "loaded", region |-> r,
                                      data |-> Edited(regFile.content, u, r, setDefault),
                                      base |-> Len(writes), cut |-> 0]]
  /\ UNCHANGED <<regFile, regCache, server, reader, writes, raced>>

UpsertFails(u) ==
  /\ upsert[u].pc = "new"
  /\ regFile.state \in Unparsable
  /\ upsert' = [upsert EXCEPT ![u].pc = "failed"]
  /\ UNCHANGED <<regFile, regCache, server, reader, writes, raced>>

(* write_text opens the file, which empties it, and then writes.  A load   *)
(* that has read and not yet stamped its parse is overtaken.               *)
Truncate(u) ==
  /\ upsert[u].pc = "loaded"
  /\ regFile' = [regFile EXCEPT !.state = "empty", !.mtime = @ + 1]
  /\ upsert' = [upsert EXCEPT ![u].pc = "truncated", ![u].cut = Len(writes)]
  /\ raced' = (raced \/ server = "loading")
  /\ UNCHANGED <<regCache, server, reader, writes>>

(* The text is written from the start of the file.  When another upsert    *)
(* has written since this one emptied it, the tail of a longer text stays  *)
(* behind the shorter one.                                                 *)
WriteRegistry(u) ==
  /\ upsert[u].pc = "truncated"
  /\ \E state \in {"whole", "torn"} :
       /\ regFile.state = "empty" => state = "whole"
       /\ regFile' = [state |-> state, content |-> upsert[u].data, mtime |-> regFile.mtime + 1]
  /\ upsert' = [upsert EXCEPT ![u].pc = "done"]
  /\ writes' = Append(writes, u)
  /\ raced' = (raced \/ server = "loading")
  /\ UNCHANGED <<regCache, server, reader>>

(* The process dies, or its write fails: the file stays as it is, or a     *)
(* write that was cut short (a full disk) has torn it.                     *)
UpsertDies(u) ==
  /\ upsert[u].pc = "truncated"
  /\ Cardinality({v \in Upserts : upsert[v].pc = "died"}) < MaxDeaths
  /\ upsert' = [upsert EXCEPT ![u].pc = "died"]
  /\ \/ UNCHANGED <<regFile, raced>>
     \/ /\ regFile' = [regFile EXCEPT !.state = "torn", !.mtime = @ + 1]
        /\ raced' = (raced \/ server = "loading")
  /\ UNCHANGED <<regCache, server, reader, writes>>

----------------------------------------------------------------------------
(* load() at the start of the server: it reads first and stats afterwards. *)
(* A file that is missing or does not parse ends the start.                *)
ServerLoads ==
  /\ server = "down"
  /\ regFile.state = "whole"
  /\ regCache' = [regCache EXCEPT !.content = regFile.content]
  /\ server' = "loading"
  /\ UNCHANGED <<regFile, reader, upsert, writes, raced>>

ServerLoaded ==
  /\ server = "loading"
  /\ regCache' = [regCache EXCEPT !.mtime = regFile.mtime]
  /\ server' = "up"
  /\ UNCHANGED <<regFile, reader, upsert, writes, raced>>

(* _reload_if_stale: stat, compare, and when the file has changed read it  *)
(* and stamp the parse with the mtime from before.                         *)
Reloading == {t \in Readers : reader[t].pc # "idle"}

FindStale(t) ==
  /\ server = "up" /\ reader[t].pc = "idle"
  /\ regCache.mtime # regFile.mtime
  /\ reader' = [reader EXCEPT ![t] = [pc |-> "read", mtime |-> regFile.mtime]]
  /\ raced' = (Reloading # {})
  /\ UNCHANGED <<regFile, regCache, server, upsert, writes>>

Reload(t) ==
  /\ reader[t].pc = "read" /\ regFile.state = "whole"
  /\ regCache' = [regCache EXCEPT !.content = regFile.content]
  /\ reader' = [reader EXCEPT ![t].pc = "stamp"]
  /\ UNCHANGED <<regFile, server, upsert, writes, raced>>

(* The request fails; the parse and its mtime stay.                        *)
ReloadFails(t) ==
  /\ reader[t].pc = "read" /\ regFile.state \in Unparsable
  /\ reader' = [reader EXCEPT ![t] = [pc |-> "idle", mtime |-> 0]]
  /\ UNCHANGED <<regFile, regCache, server, upsert, writes, raced>>

(* Faulty variant: the file is statted after it was read, as in load().    *)
StampAfresh(t) ==
  /\ reader[t].pc = "stamp"
  /\ regCache' = [regCache EXCEPT !.mtime = regFile.mtime]
  /\ reader' = [reader EXCEPT ![t] = [pc |-> "idle", mtime |-> 0]]
  /\ UNCHANGED <<regFile, server, upsert, writes, raced>>
Stamp(t) ==
  /\ reader[t].pc = "stamp"
  /\ regCache' = [regCache EXCEPT !.mtime = reader[t].mtime]
  /\ reader' = [reader EXCEPT ![t] = [pc |-> "idle", mtime |-> 0]]
  /\ UNCHANGED <<regFile, server, upsert, writes, raced>>

RegistryNext ==
  \/ \E u \in Upserts :
       \/ \E r \in Regions, d \in BOOLEAN : LoadToUpsert(u, r, d)
       \/ UpsertFails(u) \/ Truncate(u) \/ WriteRegistry(u) \/ UpsertDies(u)
  \/ ServerLoads \/ ServerLoaded
  \/ \E t \in Readers : FindStale(t) \/ Reload(t) \/ ReloadFails(t) \/ Stamp(t)

RegistrySpec == RegistryInit /\ [][RegistryNext]_regVars

----------------------------------------------------------------------------
(* Types of the registry.                                                  *)
RegistryTypeOK ==
  /\ regFile \in File
  /\ regCache \in [content : Content, mtime : Nat]
  /\ server \in {"down", "loading", "up"}
  /\ reader \in [Readers -> Reader]
  /\ upsert \in [Upserts -> Upsert]
  /\ writes \in Seq(Upserts)
  /\ raced \in BOOLEAN

(* A parse that looks current is current, unless it comes from a load that *)
(* a write has overtaken, or from reloads of two threads that overlapped:  *)
(* those are served until the file changes again.                          *)
StaleOnlyByRace ==
  server = "up" /\ regFile.state = "whole" /\ regCache.mtime = regFile.mtime
    => raced \/ regCache.content = regFile.content

(* What an upsert has written stays in the file until its region is upserted *)
(* again, unless another upsert had loaded the file before and wrote it      *)
(* afterwards.                                                               *)
UpsertsKept ==
  regFile.state = "whole" =>
    \A i \in 1..Len(writes) :
      \/ regFile.content.datasets[upsert[writes[i]].region] = writes[i]
      \/ \E j \in (i + 1)..Len(writes) :
           \/ upsert[writes[j]].region = upsert[writes[i]].region
           \/ upsert[writes[j]].base < i

(* The default region has an entry: the server's start and its readiness   *)
(* check look that entry up.                                               *)
DefaultListed ==
  regFile.state = "whole" => /\ regFile.content.default # NoRegion
                             /\ regFile.content.datasets[regFile.content.default] # NoEntry

(* The file parses, and so serves the entries that it has, but while an    *)
(* upsert is between emptying and writing it; or one has died there; or    *)
(* another one has written between the emptying and the write of the last. *)
ParsesUnlessTorn ==
  /\ regFile.state = "empty" => \E u \in Upserts : upsert[u].pc \in {"truncated", "died"}
  /\ regFile.state = "torn" =>
       \/ \E u \in Upserts : upsert[u].pc = "died"
       \/ writes # <<>> /\ upsert[Last(writes)].cut < Len(writes) - 1

(* The file on disk keeps what it must, between any two steps: entries are *)
(* lost to an upsert that had loaded the file before them, to a death, or  *)
(* to two upserts that had both emptied the file, and to nothing else.     *)
RegistryKept == UpsertsKept /\ DefaultListed /\ ParsesUnlessTorn
=============================================================================

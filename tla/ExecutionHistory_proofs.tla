----------------------- MODULE ExecutionHistory_proofs -----------------------
(***************************************************************************)
(* Proofs about ExecutionHistory, for any number of executions, requests,  *)
(* deletions and crashes: an id leads to the log of its execution, and a   *)
(* list misses nothing.                                                    *)
(***************************************************************************)
EXTENDS ExecutionHistory, FiniteSetTheorems, WellFoundedInduction, TLAPS

-----------------------------------------------------------------------------
(* The folder of logs. The inductive invariant speaks of three functions   *)
(* that exist for every state: home, the file an id of this life leads to; *)
(* who, the user whose execution it is; and owner, the id a file of this   *)
(* life belongs to unless two executions had its name.                     *)

Starters == {"io", "scheduler"}
Starting == {"open", "header", "register"}

Names == [id : Nat, user : Users \cup {"any"}] \X Nat
Ids == 1..MaxIds
Content == [id : Ids, user : Users, code : 0..MaxIds]

(* i is the id of a file called f, and of no other.                        *)
Known(i, f, home, owner) ==
    /\ i \in Ids /\ i < nextId
    /\ f \in Names /\ home[i] = f
    /\ f \notin shared => owner[f] = i

Books(home, who, owner) == DOMAIN home = Ids /\ DOMAIN who = Ids /\ DOMAIN owner = Names

HistoryTypes ==
    /\ IsFiniteSet(DOMAIN files) /\ DOMAIN files \subseteq Names
    /\ \A f \in DOMAIN files : files[f] = NoHeader \/ files[f] \in Content
    /\ nextId \in 1..MaxIds + 1
    /\ alive \subseteq Ids
    /\ DOMAIN at = Threads
    /\ at["scheduler"].pc \in Starting \cup {"free"}
    /\ at["finisher"].pc \in {"free", "truncate", "write"}
    /\ at["io"].pc \in Starting \cup {"free", "obsolete", "scan", "list", "find", "log", "answer"}

(* A log that can be read is in the file of its id, of its user, and has   *)
(* no exit code but its own.                                               *)
FilesKnown(home, who, owner) ==
    \A f \in DOMAIN files : files[f] # NoHeader =>
        /\ Known(files[f].id, f, home, owner)
        /\ who[files[f].id] = files[f].user
        /\ f \notin shared => files[f].code \in {0, files[f].id}

(* The map of the server leads to the file of the id, which is there or    *)
(* has been deleted.                                                       *)
CacheKnown(home, owner) ==
    \A i \in DOMAIN cache :
        /\ Known(i, cache[i], home, owner)
        /\ cache[i] \in DOMAIN files \cup gone

(* Who starts an execution writes its file.                                *)
StartsKnown(home, who, owner) ==
    \A t \in Starters : at[t].pc \in Starting =>
        /\ at[t] = [pc |-> at[t].pc, id |-> at[t].id, user |-> at[t].user, file |-> at[t].file]
        /\ at[t].user \in Users
        /\ Known(at[t].id, at[t].file, home, owner)
        /\ who[at[t].id] = at[t].user
        /\ at[t].pc # "open" => at[t].file \in DOMAIN files \cup gone

(* Who adds an exit code writes the log it belongs to.                     *)
CodeKnown(home, who, owner) ==
    LET run == at["finisher"] IN
    run.pc \in {"truncate", "write"} =>
        /\ run = [pc |-> run.pc, file |-> run.file, new |-> run.new]
        /\ run.new \in Content
        /\ Known(run.new.id, run.file, home, owner)
        /\ who[run.new.id] = run.new.user
        /\ run.file \notin shared => run.new.code = run.new.id
        /\ run.file \in DOMAIN files \cup gone
        /\ run.file \in DOMAIN files \ (shared \cup gone) => run.new.id \in DOMAIN cache

(* Before the header of a log is written, its id is in no other place.     *)
FreshKnown ==
    \A t \in Starters : at[t].pc \in {"open", "header"} =>
        /\ \A f \in DOMAIN files : files[f] # NoHeader => files[f].id # at[t].id
        /\ at["finisher"].pc \in {"truncate", "write"} => at["finisher"].new.id # at[t].id
        /\ \A u \in Starters \ {t} : at[u].pc \in Starting => at[u].id # at[t].id

(* A file that is not looked at again is in the map, or will be.           *)
VisitedKnown ==
    \A f \in (visited \cap DOMAIN files) \ (shared \cup gone) : files[f] # NoHeader =>
        \/ files[f].id \in DOMAIN cache
        \/ \E t \in Starters : at[t].pc = "register" /\ at[t].file = f

(* What the list must have can be read, and nobody is about to write it.   *)
DueKnown(home) ==
    \A i \in due :
        /\ i \in Ids
        /\ home[i] \in DOMAIN files \ (shared \cup gone)
        /\ files[home[i]] # NoHeader /\ files[home[i]].id = i
        /\ \A t \in Starters : at[t].pc = "register" => at[t].file # home[i]

Querying == at["io"].pc \in {"obsolete", "scan", "list", "find", "log"}
Asks(query) == Querying /\ at["io"].next = query

(* What a request carries along.                                           *)
RequestShape ==
    LET run == at["io"] IN
    Querying =>
        /\ {"pc", "next", "size", "user"} \subseteq DOMAIN run
        /\ run.next \in {"list", "find", "log"}
        /\ run.pc \in {"list", "find", "log"} => run.next = run.pc
        /\ run.pc = "obsolete" <=> "todo" \notin DOMAIN run
        /\ run.next = "list" => "entries" \in DOMAIN run
        /\ run.next \in {"find", "log"} => "id" \in DOMAIN run
        /\ run.next = "log" => "entry" \in DOMAIN run

MaySee(user, other) == other = user \/ user \in FullHistory

(* A list has what is due, or still looks for it.                          *)
ListKnown(home, who) ==
    LET run == at["io"] IN
    Asks("list") =>
        /\ \A e \in run.entries : MaySee(run.user, e.user)
        /\ \A i \in due :
              /\ MaySee(run.user, who[i])
              /\ run.pc = "scan" => i \in DOMAIN cache \/ home[i] \in run.todo
              /\ run.pc = "list" => i \in run.todo \/ \E e \in run.entries : e.id = i

(* What was found of an execution is what its file had.                    *)
Found(part, i, home, who, owner) ==
    /\ Known(i, part.file, home, owner)
    /\ Known(part.id, part.file, home, owner)
    /\ who[part.id] = part.user
    /\ part.file \in DOMAIN files \cup gone

EntryKnown(home, who, owner) ==
    LET run == at["io"] IN
    /\ Asks("log") \/ run.pc = "answer" =>
          Found(run.entry, run.id, home, who, owner) /\ MaySee(run.user, run.entry.user)
    /\ run.pc = "answer" => run.log = NoHeader \/ Found(run.log, run.id, home, who, owner)

FolderInv(home, who, owner) ==
    /\ Books(home, who, owner)
    /\ HistoryTypes
    /\ FilesKnown(home, who, owner) /\ CacheKnown(home, owner)
    /\ StartsKnown(home, who, owner) /\ CodeKnown(home, who, owner) /\ FreshKnown
    /\ VisitedKnown /\ DueKnown(home)

QueryInv(home, who, owner) ==
    RequestShape /\ ListKnown(home, who) /\ EntryKnown(home, who, owner)

HistoryInv ==
    \E home, who, owner : FolderInv(home, who, owner) /\ QueryInv(home, who, owner)

-----------------------------------------------------------------------------
(* A set of numbers has a least one.                                       *)
LEMMA LeastNumber ==
    ASSUME NEW S \in SUBSET Nat, S # {}
    PROVE  \E m \in S : \A k \in S : m <= k
<1> DEFINE R == {ss \in Nat \X Nat : ss[1] < ss[2]}
<1>1. IsWellFoundedOn(R, Nat)
  BY NatLessThanWellFounded DEF OpToRel
<1> HIDE DEF R
<1>2. \E m \in S : \A k \in S : ~(<<k, m>> \in R)
  BY <1>1, WFMin
<1>3. PICK m \in S : \A k \in S : ~(<<k, m>> \in R)
  BY <1>2
<1>4. \A k \in S : ~(k < m)
  BY <1>3 DEF R
<1>5. m \in Nat /\ \A k \in S : k \in Nat
  OBVIOUS
<1>6. \A k \in S : m <= k
  BY <1>4, <1>5
<1> QED BY <1>6

(* There is always a name that no file has.                                *)
LEMMA NameIsFree ==
    ASSUME IsFiniteSet(DOMAIN files), NEW name
    PROVE  /\ UniqueName(name) \notin DOMAIN files
           /\ \E n \in Nat : UniqueName(name) = <<name, n>>
<1> DEFINE c == Cardinality(DOMAIN files)
           S == {n \in 0..c : <<name, n>> \notin DOMAIN files}
<1>1. c \in Nat
  BY FS_CardinalityType
<1> HIDE DEF c
<1>2. ASSUME S = {}
      PROVE  FALSE
  <2> DEFINE g == [n \in 0..c |-> <<name, n>>]
  <2>1. g \in Injection(0..c, DOMAIN files)
    <3>1. \A n \in 0..c : <<name, n>> \in DOMAIN files
      BY <1>2
    <3>2. g \in [0..c -> DOMAIN files]
      BY <3>1
    <3>3. \A m, n \in 0..c : g[m] = g[n] => m = n
      OBVIOUS
    <3> QED BY <3>2, <3>3 DEF Injection, IsInjective
  <2>2. Cardinality(0..c) = c + 1
    BY <1>1, FS_Interval
  <2> HIDE DEF g
  <2>3. Cardinality(0..c) <= Cardinality(DOMAIN files)
    BY <2>1, FS_Injection
  <2> QED BY <1>1, <2>2, <2>3 DEF c
<1>3. S \in SUBSET Nat /\ S # {}
  BY <1>1, <1>2
<1> HIDE DEF S
<1>4. \E m \in S : \A k \in S : m <= k
  BY <1>3, LeastNumber
<1>5. Min(S) \in S
  BY <1>4 DEF Min
<1>6. UniqueName(name) = <<name, Min(S)>>
  BY DEF UniqueName, S, c
<1>7. Min(S) \in Nat /\ <<name, Min(S)>> \notin DOMAIN files
  BY <1>1, <1>5 DEF S
<1> QED BY <1>6, <1>7

(* What stands for "no file" is not a name of one.                         *)
LEMMA NoNameIsEmpty == <<>> \notin Names
BY DEF Names

(* What a thread goes to.                                                  *)
LEMMA Went ==
    ASSUME DOMAIN at = Threads, NEW t \in Threads, NEW step, Goes(t, step)
    PROVE  /\ DOMAIN at' = Threads /\ at'[t] = step
           /\ \A u \in Threads \ {t} : at'[u] = at[u]
BY DEF Goes

(* Before anything is done the invariant holds.                            *)
LEMMA HistoryStart == HistoryInit => HistoryInv
<1> SUFFICES ASSUME HistoryInit
             PROVE  HistoryInv
  OBVIOUS
<1> DEFINE home == [i \in Ids |-> i]
           owner == [f \in Names |-> f]
<1>1. /\ DOMAIN files = {} /\ DOMAIN cache = {} /\ visited = {} /\ nextId = 1 /\ alive = {} /\ due = {}
      /\ \A t \in Threads : at[t].pc = "free"
      /\ DOMAIN at = Threads
  BY DEF HistoryInit, Free
<1>2. Books(home, home, owner)
  BY DEF Books
<1>3. HistoryTypes
  BY <1>1, HistoryAssumption, FS_EmptySet DEF HistoryTypes, Threads
<1> HIDE DEF home, owner
<1>4. FilesKnown(home, home, owner) /\ CacheKnown(home, owner)
  BY <1>1 DEF FilesKnown, CacheKnown
<1>5. StartsKnown(home, home, owner) /\ CodeKnown(home, home, owner) /\ FreshKnown
  BY <1>1 DEF StartsKnown, CodeKnown, FreshKnown, Threads, Starters, Starting
<1>6. VisitedKnown /\ DueKnown(home)
  BY <1>1 DEF VisitedKnown, DueKnown
<1>7. QueryInv(home, home, owner)
  BY <1>1 DEF QueryInv, RequestShape, ListKnown, EntryKnown, Asks, Querying, Threads
<1> QED BY <1>2, <1>3, <1>4, <1>5, <1>6, <1>7 DEF HistoryInv, FolderInv

-----------------------------------------------------------------------------
(* The requests. A step of one changes neither the files nor who has them. *)

(* A step of a request that keeps the map, what was visited and what is    *)
(* due sound.                                                              *)
LEMMA RequestFrame ==
    ASSUME NEW home, NEW who, NEW owner, FolderInv(home, who, owner),
           UNCHANGED <<files, nextId, alive, gone, shared>>,
           NEW step, Goes("io", step), at["io"].pc \notin Starting,
           step.pc \in {"free", "obsolete", "scan", "list", "find", "log", "answer"},
           \A i \in DOMAIN cache : cache[i] \in DOMAIN files => i \in DOMAIN cache',
           CacheKnown(home, owner)', VisitedKnown', DueKnown(home)'
    PROVE  FolderInv(home, who, owner)' /\ at'["io"] = step
<1>1. /\ DOMAIN at' = Threads /\ at'["io"] = step
      /\ \A u \in Threads \ {"io"} : at'[u] = at[u]
  BY Went DEF FolderInv, HistoryTypes, Threads
<1>2. at'["scheduler"] = at["scheduler"] /\ at'["finisher"] = at["finisher"]
  BY <1>1 DEF Threads
<1>3. at'["io"].pc \notin Starting
  BY <1>1 DEF Starting
<1>4. Books(home, who, owner)' /\ HistoryTypes'
  <2>1. Books(home, who, owner)'
    BY DEF FolderInv, Books
  <2>2. HistoryTypes
    BY DEF FolderInv
  <2> QED BY <1>1, <1>2, <2>1, <2>2 DEF HistoryTypes
<1>5. FilesKnown(home, who, owner)'
  BY DEF FolderInv, FilesKnown, Known
<1>6. StartsKnown(home, who, owner)'
  <2>1. StartsKnown(home, who, owner)
    BY DEF FolderInv
  <2> QED BY <1>2, <1>3, <2>1 DEF StartsKnown, Known, Starters
<1>7. CodeKnown(home, who, owner)'
  <2>1. CodeKnown(home, who, owner) /\ CacheKnown(home, owner)
    BY DEF FolderInv
  <2>2. at["finisher"].pc \in {"truncate", "write"} =>
            (at["finisher"].new.id \in DOMAIN cache => cache[at["finisher"].new.id] = at["finisher"].file)
    BY <2>1 DEF CodeKnown, CacheKnown, Known
  <2> QED BY <1>2, <2>1, <2>2 DEF CodeKnown, Known
<1>8. FreshKnown'
  <2>1. FreshKnown
    BY DEF FolderInv
  <2>2. \A u \in Starters : at'[u].pc \in Starting => at'[u] = at[u]
    BY <1>2, <1>3 DEF Starters
  <2>3. \A u \in Starters : at'[u].pc \in {"open", "header"} => at'[u].pc \in Starting
    BY DEF Starting
  <2> QED BY <1>2, <2>1, <2>2, <2>3 DEF FreshKnown
<1> QED BY <1>1, <1>4, <1>5, <1>6, <1>7, <1>8 DEF FolderInv

(* A step that only goes on keeps what was visited and what is due.        *)
LEMMA GoesOn ==
    ASSUME NEW home, NEW who, NEW owner, FolderInv(home, who, owner),
           UNCHANGED <<files, nextId, alive, gone, shared, cache, visited>>, due' \in SUBSET due,
           NEW step, Goes("io", step), at["io"].pc \notin Starting,
           step.pc \in {"free", "obsolete", "scan", "list", "find", "log", "answer"}
    PROVE  FolderInv(home, who, owner)' /\ at'["io"] = step
<1>1. /\ DOMAIN at' = Threads /\ at'["io"] = step
      /\ \A u \in Threads \ {"io"} : at'[u] = at[u]
  BY Went DEF FolderInv, HistoryTypes, Threads
<1>2. at'["scheduler"] = at["scheduler"]
  BY <1>1 DEF Threads
<1>3. \A u \in Starters : (at'[u].pc = "register" <=> at[u].pc = "register")
                          /\ (at'[u].pc = "register" => at'[u] = at[u])
  BY <1>1, <1>2 DEF Starters, Starting
<1>4. CacheKnown(home, owner)'
  BY DEF FolderInv, CacheKnown, Known
<1>5. VisitedKnown'
  <2>1. VisitedKnown
    BY DEF FolderInv
  <2> QED BY <1>3, <2>1 DEF VisitedKnown
<1>6. DueKnown(home)'
  <2>1. DueKnown(home)
    BY DEF FolderInv
  <2> QED BY <1>3, <2>1 DEF DueKnown
<1> QED BY <1>4, <1>5, <1>6, RequestFrame

(* A thread that has nothing to answer owes nothing.                       *)
LEMMA NoRequest ==
    ASSUME NEW home, NEW who, NEW owner,
           at'["io"].pc \in {"free", "open", "header", "register"}
    PROVE  QueryInv(home, who, owner)'
BY DEF QueryInv, RequestShape, ListKnown, EntryKnown, Asks, Querying

(* The folder was looked at: a list goes over the map, which has all that  *)
(* is due.                                                                 *)
LEMMA EndScanKeeps ==
    ASSUME NEW home, NEW who, NEW owner, FolderInv(home, who, owner), QueryInv(home, who, owner),
           EndScan
    PROVE  FolderInv(home, who, owner)' /\ QueryInv(home, who, owner)'
<1> DEFINE run == at["io"]
<1>1. /\ run.pc = "scan" /\ run.todo = {}
      /\ UNCHANGED <<files, nextId, alive, gone, shared, cache, visited, due>>
  BY DEF EndScan, counters
<1>2. PICK g : g = [run EXCEPT !.pc = run.next, !.size = Cardinality(DOMAIN cache),
                               !.todo = IF run.next = "list" THEN DOMAIN cache ELSE {}]
  OBVIOUS
<1>3. Goes("io", g)
  BY <1>2 DEF EndScan
<1>4. /\ Querying /\ RequestShape /\ ListKnown(home, who) /\ EntryKnown(home, who, owner)
  BY <1>1 DEF QueryInv, Querying
<1>5. /\ {"pc", "next", "size", "user", "todo"} \subseteq DOMAIN run
      /\ run.next \in {"list", "find", "log"}
  BY <1>1, <1>4 DEF RequestShape
<1>6. /\ DOMAIN g = DOMAIN run /\ g.pc = run.next /\ g.next = run.next /\ g.user = run.user
      /\ g.todo = IF run.next = "list" THEN DOMAIN cache ELSE {}
      /\ "entries" \in DOMAIN run => g.entries = run.entries
      /\ "id" \in DOMAIN run => g.id = run.id
      /\ "entry" \in DOMAIN run => g.entry = run.entry
  BY <1>2, <1>5
<1> HIDE DEF run
<1>7. FolderInv(home, who, owner)' /\ at'["io"] = g
  BY <1>1, <1>3, <1>5, <1>6, GoesOn DEF Starting, run
<1>8. RequestShape'
  BY <1>1, <1>4, <1>5, <1>6, <1>7 DEF RequestShape, Querying, run
<1>9. ListKnown(home, who)'
  <2> SUFFICES ASSUME run.next = "list"
               PROVE  ListKnown(home, who)'
    BY <1>6, <1>7 DEF ListKnown, Asks
  <2>1. /\ \A e \in run.entries : MaySee(run.user, e.user)
        /\ \A i \in due : MaySee(run.user, who[i]) /\ i \in DOMAIN cache
    BY <1>1, <1>4 DEF ListKnown, Asks, run
  <2>2. g.entries = run.entries /\ g.todo = DOMAIN cache
    BY <1>4, <1>6 DEF RequestShape, run
  <2> QED BY <1>1, <1>6, <1>7, <2>1, <2>2 DEF ListKnown
<1>10. EntryKnown(home, who, owner)'
  <2> SUFFICES ASSUME run.next = "log"
               PROVE  EntryKnown(home, who, owner)'
    BY <1>5, <1>6, <1>7 DEF EntryKnown, Asks
  <2>1. Found(run.entry, run.id, home, who, owner) /\ MaySee(run.user, run.entry.user)
    BY <1>1, <1>4 DEF EntryKnown, Asks, run
  <2>2. g.entry = run.entry /\ g.id = run.id
    BY <1>4, <1>6 DEF RequestShape, run
  <2> QED BY <1>1, <1>6, <1>7, <2>1, <2>2 DEF EntryKnown, Found, Known
<1> QED BY <1>7, <1>8, <1>9, <1>10 DEF QueryInv

(* A list is asked for: what is due can be read, and the user may see it.  *)
LEMMA AskForListKeeps ==
    ASSUME NEW home, NEW who, NEW owner, FolderInv(home, who, owner), QueryInv(home, who, owner),
           NEW user \in Users, AskForList(user)
    PROVE  FolderInv(home, who, owner)' /\ QueryInv(home, who, owner)'
<1> DEFINE Complete0 ==
               {f \in Readables \ (shared \cup gone) :
                   /\ CanAccess(user, files[f])
                   /\ \A t \in Threads : at[t].pc = "register" => at[t].file # f}
<1>1. /\ at["io"] = Free /\ due' = {files[f].id : f \in Complete0}
      /\ UNCHANGED <<files, nextId, alive, gone, shared, cache, visited>>
  BY DEF AskForList
<1>2. PICK g : g = Renewing([user |-> user, entries |-> {}], "list")
  OBVIOUS
<1>3. Goes("io", g)
  BY <1>2 DEF AskForList
<1>4. /\ DOMAIN g = {"user", "entries", "pc", "next", "size"}
      /\ g.pc = "obsolete" /\ g.next = "list" /\ g.user = user /\ g.entries = {}
  BY <1>2 DEF Renewing, Join
<1>5. /\ DOMAIN at' = Threads /\ at'["io"] = g
      /\ \A u \in Threads \ {"io"} : at'[u] = at[u]
  BY <1>3, Went DEF FolderInv, HistoryTypes, Threads
<1>6. at["io"].pc = "free"
  BY <1>1 DEF Free
<1>7. \A u \in Starters : (at'[u].pc = "register" <=> at[u].pc = "register")
                          /\ (at'[u].pc = "register" => at'[u] = at[u])
  BY <1>4, <1>5, <1>6 DEF Starters, Threads
<1>8. CacheKnown(home, owner)' /\ VisitedKnown'
  <2>1. CacheKnown(home, owner) /\ VisitedKnown
    BY DEF FolderInv
  <2> QED BY <1>1, <1>7, <2>1 DEF VisitedKnown, CacheKnown, Known
<1>9. ASSUME NEW i \in due'
      PROVE  /\ i \in Ids /\ home[i] \in DOMAIN files \ (shared \cup gone)
             /\ files[home[i]] # NoHeader /\ files[home[i]].id = i
             /\ \A t \in Threads : at[t].pc = "register" => at[t].file # home[i]
             /\ MaySee(user, who[i])
  <2>1. PICK f \in Complete0 : i = files[f].id
    BY <1>1
  <2>2. /\ f \in DOMAIN files /\ files[f] # NoHeader /\ f \notin shared /\ f \notin gone
        /\ CanAccess(user, files[f])
        /\ \A t \in Threads : at[t].pc = "register" => at[t].file # f
    BY DEF Readables, Readable
  <2>3. Known(files[f].id, f, home, owner) /\ who[files[f].id] = files[f].user
    BY <2>2 DEF FolderInv, FilesKnown
  <2> QED BY <2>1, <2>2, <2>3 DEF Known, CanAccess, MaySee
<1> HIDE DEF Complete0
<1>10. DueKnown(home)'
  <2>1. \A t \in Starters : t \in Threads
    BY DEF Starters, Threads
  <2> QED BY <1>1, <1>7, <1>9, <2>1 DEF DueKnown
<1>11. FolderInv(home, who, owner)'
  BY <1>1, <1>3, <1>4, <1>6, <1>8, <1>10, RequestFrame DEF Starting
<1>12. RequestShape' /\ EntryKnown(home, who, owner)'
  BY <1>4, <1>5 DEF RequestShape, EntryKnown, Asks
<1>13. ListKnown(home, who)'
  BY <1>4, <1>5, <1>9 DEF ListKnown
<1> QED BY <1>11, <1>12, <1>13 DEF QueryInv

(* An execution is asked for by its id.                                    *)
LEMMA AskForLogKeeps ==
    ASSUME NEW home, NEW who, NEW owner, FolderInv(home, who, owner), QueryInv(home, who, owner),
           NEW user \in Users, NEW id \in Ids, AskForLog(user, id)
    PROVE  FolderInv(home, who, owner)' /\ QueryInv(home, who, owner)'
<1>1. /\ at["io"].pc = "free"
      /\ UNCHANGED <<files, nextId, alive, gone, shared, cache, visited, due>>
  BY DEF AskForLog, Free
<1>2. PICK g : g = Renewing([user |-> user, id |-> id], "find")
  OBVIOUS
<1>3. Goes("io", g)
  BY <1>2 DEF AskForLog
<1>4. /\ DOMAIN g = {"user", "id", "pc", "next", "size"}
      /\ g.pc = "obsolete" /\ g.next = "find"
  BY <1>2 DEF Renewing, Join
<1>5. FolderInv(home, who, owner)' /\ at'["io"] = g
  BY <1>1, <1>3, <1>4, GoesOn DEF Starting
<1>6. RequestShape' /\ EntryKnown(home, who, owner)' /\ ListKnown(home, who)'
  BY <1>4, <1>5 DEF RequestShape, EntryKnown, ListKnown, Asks
<1> QED BY <1>5, <1>6 DEF QueryInv

(* A request that ends, or fails.                                          *)
LEMMA EndKeeps ==
    ASSUME NEW home, NEW who, NEW owner, FolderInv(home, who, owner),
           UNCHANGED <<files, nextId, alive, gone, shared, cache, visited>>, due' \in SUBSET due,
           Goes("io", Free), at["io"].pc \notin Starting
    PROVE  FolderInv(home, who, owner)' /\ QueryInv(home, who, owner)'
<1>1. Free.pc = "free"
  BY DEF Free
<1> HIDE DEF Free
<1>2. FolderInv(home, who, owner)' /\ at'["io"] = Free
  BY <1>1, GoesOn
<1> QED BY <1>1, <1>2, NoRequest

(* An entry is added to a list: a file that is due is there and can be     *)
(* read.                                                                   *)
LEMMA ListEntryKeeps ==
    ASSUME NEW home, NEW who, NEW owner, FolderInv(home, who, owner), QueryInv(home, who, owner),
           NEW id \in DOMAIN cache, ListEntry(id)
    PROVE  FolderInv(home, who, owner)' /\ QueryInv(home, who, owner)'
<1> DEFINE run == at["io"]
           f == cache[id]
           shows == f \in Readables /\ CanAccess(run.user, files[f])
<1>1. /\ run.pc = "list" /\ id \in run.todo
      /\ UNCHANGED <<files, nextId, alive, gone, shared, cache, visited, due>>
  BY DEF ListEntry, Quietly
<1>2. run.pc \notin Starting
  BY <1>1 DEF Starting
<1>3. CASE ~SizeKept \/ f \notin DOMAIN files
  <2>1. Goes("io", Free)
    BY <1>3 DEF ListEntry
  <2> QED BY <1>1, <1>2, <2>1, EndKeeps
<1>4. CASE ~(~SizeKept \/ f \notin DOMAIN files)
  <2>1. PICK g : g = [run EXCEPT !.todo = @ \ {id},
                       !.entries = IF shows THEN @ \cup {EntryOf(f)} ELSE @]
    OBVIOUS
  <2>2. Goes("io", g)
    BY <1>4, <2>1 DEF ListEntry
  <2>3. Querying /\ RequestShape /\ ListKnown(home, who)
    BY <1>1 DEF QueryInv, Querying
  <2>4. {"pc", "next", "size", "user", "todo", "entries"} \subseteq DOMAIN run /\ run.next = "list"
    BY <1>1, <2>3 DEF RequestShape
  <2>5. /\ DOMAIN g = DOMAIN run /\ g.pc = "list" /\ g.next = "list" /\ g.user = run.user
        /\ g.todo = run.todo \ {id}
        /\ g.entries = IF shows THEN run.entries \cup {EntryOf(f)} ELSE run.entries
    BY <1>1, <2>1, <2>4
  <2> HIDE DEF run
  <2>6. FolderInv(home, who, owner)' /\ at'["io"] = g
    BY <1>1, <1>2, <2>2, <2>5, GoesOn DEF run
  <2>7. RequestShape' /\ EntryKnown(home, who, owner)'
    BY <2>4, <2>5, <2>6 DEF RequestShape, EntryKnown, Asks
  <2>8. PICK e : e = EntryOf(f)
    OBVIOUS
  <2>9. shows => e.id = files[f].id /\ e.user = files[f].user /\ MaySee(run.user, e.user)
    <3> SUFFICES ASSUME shows
                 PROVE  e.id = files[f].id /\ e.user = files[f].user /\ MaySee(run.user, e.user)
      OBVIOUS
    <3>1. files[f] \in Content
      BY DEF FolderInv, HistoryTypes, Readables, Readable
    <3>2. e.id = files[f].id /\ e.user = files[f].user
      BY <2>8, <3>1 DEF Content, EntryOf, Join
    <3> QED BY <3>2 DEF CanAccess, MaySee
  <2>10. /\ \A x \in run.entries : MaySee(run.user, x.user)
         /\ \A i \in due : MaySee(run.user, who[i]) /\ (i \in run.todo \/ \E x \in run.entries : x.id = i)
    BY <1>1, <2>3, <2>4 DEF ListKnown, Asks, run
  <2>11. \A x \in g.entries : MaySee(run.user, x.user)
    BY <2>5, <2>8, <2>9, <2>10
  <2>12. ASSUME NEW i \in due
         PROVE  i \in g.todo \/ \E x \in g.entries : x.id = i
    <3>1. CASE i # id
      BY <2>5, <2>10, <3>1
    <3>2. CASE i = id
      <4>1. home[i] = f
        BY <3>2 DEF FolderInv, CacheKnown, Known
      <4>2. f \in Readables /\ files[f].id = i
        BY <4>1 DEF FolderInv, DueKnown, Readables, Readable
      <4>3. who[i] = files[f].user
        BY <4>2 DEF FolderInv, FilesKnown, Readables, Readable
      <4>4. shows
        BY <2>10, <4>2, <4>3 DEF MaySee, CanAccess
      <4> QED BY <2>5, <2>8, <2>9, <4>2, <4>4
    <3> QED BY <3>1, <3>2
  <2> HIDE DEF shows, f
  <2>13. ListKnown(home, who)'
    BY <1>1, <2>5, <2>6, <2>10, <2>11, <2>12 DEF ListKnown
  <2> QED BY <2>6, <2>7, <2>13 DEF QueryInv
<1> QED BY <1>3, <1>4

(* The execution is looked for: what is found is what its file has.        *)
LEMMA FindEntryKeeps ==
    ASSUME NEW home, NEW who, NEW owner, FolderInv(home, who, owner), QueryInv(home, who, owner),
           FindEntry
    PROVE  FolderInv(home, who, owner)' /\ QueryInv(home, who, owner)'
<1> DEFINE run == at["io"]
           f == IF run.id \in DOMAIN cache THEN cache[run.id] ELSE <<>>
           finds == f \in Readables /\ CanAccess(run.user, files[f])
<1>1. /\ run.pc = "find"
      /\ UNCHANGED <<files, nextId, alive, gone, shared, cache, visited, due>>
  BY DEF FindEntry, Quietly
<1>2. run.pc \notin Starting
  BY <1>1 DEF Starting
<1>3. CASE ~finds
  <2>1. Goes("io", Free)
    BY <1>3 DEF FindEntry
  <2> QED BY <1>1, <1>2, <2>1, EndKeeps
<1>4. CASE finds
  <2>1. PICK e : e = EntryOf(f)
    OBVIOUS
  <2>2. PICK g : g = Renewing([user |-> run.user, id |-> run.id, entry |-> e], "log")
    OBVIOUS
  <2>3. Goes("io", g)
    BY <1>4, <2>1, <2>2 DEF FindEntry
  <2>4. /\ DOMAIN g = {"user", "id", "entry", "pc", "next", "size"}
        /\ g.pc = "obsolete" /\ g.next = "log" /\ g.user = run.user /\ g.id = run.id /\ g.entry = e
    BY <2>2 DEF Renewing, Join
  <2>5. FolderInv(home, who, owner)' /\ at'["io"] = g
    BY <1>1, <1>2, <2>3, <2>4, GoesOn
  <2>6. RequestShape' /\ ListKnown(home, who)'
    BY <2>4, <2>5 DEF RequestShape, ListKnown, Asks
  <2>7. f \in DOMAIN files /\ files[f] # NoHeader /\ files[f] \in Content /\ DOMAIN files \subseteq Names
    BY <1>4 DEF FolderInv, HistoryTypes, Readables, Readable
  <2>8. e.file = f /\ e.id = files[f].id /\ e.user = files[f].user
    BY <2>1, <2>7 DEF Content, EntryOf, Join
  <2>9. run.id \in DOMAIN cache /\ f = cache[run.id]
    BY <2>7, NoNameIsEmpty
  <2>10. Found(e, run.id, home, who, owner)
    BY <2>7, <2>8, <2>9 DEF FolderInv, CacheKnown, FilesKnown, Found
  <2>11. MaySee(run.user, e.user)
    BY <1>4, <2>8 DEF CanAccess, MaySee
  <2> HIDE DEF run, f, finds
  <2>12. EntryKnown(home, who, owner)'
    BY <1>1, <2>4, <2>5, <2>10, <2>11 DEF EntryKnown, Found, Known
  <2> QED BY <2>5, <2>6, <2>12 DEF QueryInv
<1> QED BY <1>3, <1>4

(* Its log is looked for in the file the map leads to, then.               *)
LEMMA FindLogKeeps ==
    ASSUME NEW home, NEW who, NEW owner, FolderInv(home, who, owner), QueryInv(home, who, owner),
           FindLog
    PROVE  FolderInv(home, who, owner)' /\ QueryInv(home, who, owner)'
<1> DEFINE run == at["io"]
           known == run.id \in DOMAIN cache
           f == IF known THEN cache[run.id] ELSE <<>>
<1>1. /\ run.pc = "log"
      /\ UNCHANGED <<files, nextId, alive, gone, shared, cache, visited, due>>
  BY DEF FindLog, Quietly
<1>2. run.pc \notin Starting
  BY <1>1 DEF Starting
<1>3. CASE known /\ f \notin Readables
  <2>1. Goes("io", Free)
    BY <1>3 DEF FindLog
  <2> QED BY <1>1, <1>2, <2>1, EndKeeps
<1>4. CASE ~(known /\ f \notin Readables)
  <2>1. PICK l : l = IF known THEN EntryOf(f) ELSE NoHeader
    OBVIOUS
  <2>2. PICK g : g = [pc |-> "answer", user |-> run.user, id |-> run.id, entry |-> run.entry, log |-> l]
    OBVIOUS
  <2>3. Goes("io", g)
    BY <1>4, <2>1, <2>2 DEF FindLog
  <2>4. g.pc = "answer" /\ g.user = run.user /\ g.id = run.id /\ g.entry = run.entry /\ g.log = l
    BY <2>2
  <2>5. FolderInv(home, who, owner)' /\ at'["io"] = g
    BY <1>1, <1>2, <2>3, <2>4, GoesOn
  <2>6. RequestShape' /\ ListKnown(home, who)'
    BY <2>4, <2>5 DEF RequestShape, ListKnown, Asks, Querying
  <2>7. Found(run.entry, run.id, home, who, owner) /\ MaySee(run.user, run.entry.user)
    <3>1. Querying /\ RequestShape /\ EntryKnown(home, who, owner)
      BY <1>1 DEF QueryInv, Querying
    <3> QED BY <1>1, <3>1 DEF EntryKnown, RequestShape, Asks
  <2>8. l = NoHeader \/ Found(l, run.id, home, who, owner)
    <3> SUFFICES ASSUME known
                 PROVE  Found(l, run.id, home, who, owner)
      BY <2>1
    <3>1. f \in DOMAIN files /\ files[f] # NoHeader /\ files[f] \in Content /\ f = cache[run.id]
      BY <1>4 DEF FolderInv, HistoryTypes, Readables, Readable
    <3>2. l.file = f /\ l.id = files[f].id /\ l.user = files[f].user
      BY <2>1, <3>1 DEF Content, EntryOf, Join
    <3> QED BY <3>1, <3>2 DEF FolderInv, CacheKnown, FilesKnown, Found
  <2> HIDE DEF run, f, known
  <2>9. EntryKnown(home, who, owner)'
    BY <1>1, <2>4, <2>5, <2>7, <2>8 DEF EntryKnown, Found, Known
  <2> QED BY <2>5, <2>6, <2>9 DEF QueryInv
<1> QED BY <1>3, <1>4

(* What the map loses has no file, and what is not visited is to be looked *)
(* at.                                                                     *)
LEMMA DropObsoleteKeeps ==
    ASSUME NEW home, NEW who, NEW owner, FolderInv(home, who, owner), QueryInv(home, who, owner),
           DropObsolete
    PROVE  FolderInv(home, who, owner)' /\ QueryInv(home, who, owner)'
<1> DEFINE run == at["io"]
           kept == {id \in DOMAIN cache : cache[id] \in DOMAIN files}
<1>1. /\ run.pc = "obsolete"
      /\ UNCHANGED <<files, nextId, alive, gone, shared, visited, due>>
  BY DEF DropObsolete, counters
<1>2. run.pc \notin Starting
  BY <1>1 DEF Starting
<1>3. CASE ~SizeKept
  <2>1. Goes("io", Free) /\ cache' = cache
    BY <1>3 DEF DropObsolete
  <2> QED BY <1>1, <1>2, <2>1, EndKeeps
<1>4. CASE SizeKept
  <2>1. PICK g : g = Join([run EXCEPT !.pc = "scan"], [todo |-> DOMAIN files \ visited])
    OBVIOUS
  <2>2. Goes("io", g) /\ cache' = Restrict(cache, kept)
    BY <1>4, <2>1 DEF DropObsolete
  <2>3. Querying /\ RequestShape /\ ListKnown(home, who) /\ EntryKnown(home, who, owner)
    BY <1>1 DEF QueryInv, Querying
  <2>4. {"pc", "next", "size", "user"} \subseteq DOMAIN run /\ "todo" \notin DOMAIN run
    BY <1>1, <2>3 DEF RequestShape
  <2>5. /\ DOMAIN g = DOMAIN run \cup {"todo"} /\ g.pc = "scan" /\ g.next = run.next /\ g.user = run.user
        /\ g.todo = DOMAIN files \ visited
        /\ "entries" \in DOMAIN run => g.entries = run.entries
        /\ "id" \in DOMAIN run => g.id = run.id
        /\ "entry" \in DOMAIN run => g.entry = run.entry
    BY <1>1, <2>1, <2>4 DEF Join
  <2>6. DOMAIN cache' = kept /\ \A i \in kept : cache'[i] = cache[i]
    BY <2>2 DEF Restrict
  <2>7. /\ at'["io"] = g /\ \A u \in Threads \ {"io"} : at'[u] = at[u]
    BY <2>2, Went DEF FolderInv, HistoryTypes, Threads
  <2>8. \A u \in Starters : (at'[u].pc = "register" <=> at[u].pc = "register")
                            /\ (at'[u].pc = "register" => at'[u] = at[u])
    BY <1>1, <2>5, <2>7 DEF Starters, Threads
  <2>9. CacheKnown(home, owner)'
    BY <1>1, <2>6 DEF FolderInv, CacheKnown, Known
  <2>10. VisitedKnown'
    <3>1. VisitedKnown
      BY DEF FolderInv
    <3>2. ASSUME NEW f \in DOMAIN files, files[f] # NoHeader, files[f].id \in DOMAIN cache
          PROVE  files[f].id \in kept
      BY <3>2 DEF FolderInv, FilesKnown, CacheKnown, Known
    <3> HIDE DEF kept
    <3> QED BY <1>1, <2>6, <2>8, <3>1, <3>2 DEF VisitedKnown
  <2>11. DueKnown(home)'
    <3>1. DueKnown(home)
      BY DEF FolderInv
    <3> QED BY <1>1, <2>8, <3>1 DEF DueKnown
  <2>12. \A i \in DOMAIN cache : cache[i] \in DOMAIN files => i \in DOMAIN cache'
    BY <2>6
  <2>13. g.pc \notin Starting
    BY <2>5 DEF Starting
  <2> HIDE DEF run, kept
  <2>14. FolderInv(home, who, owner)'
    BY <1>1, <1>2, <2>2, <2>5, <2>9, <2>10, <2>11, <2>12, RequestFrame DEF run
  <2>15. RequestShape'
    BY <1>1, <2>3, <2>4, <2>5, <2>7 DEF RequestShape, Querying, run
  <2>16. ListKnown(home, who)'
    <3> SUFFICES ASSUME run.next = "list"
                 PROVE  ListKnown(home, who)'
      BY <2>5, <2>7 DEF ListKnown, Asks
    <3>1. /\ \A e \in run.entries : MaySee(run.user, e.user)
          /\ \A i \in due : MaySee(run.user, who[i])
      BY <2>3 DEF ListKnown, Asks, run
    <3>2. g.entries = run.entries
      BY <2>3, <2>5 DEF RequestShape, run
    <3>3. ASSUME NEW i \in due
          PROVE  i \in DOMAIN cache' \/ home[i] \in g.todo
      <4>1. /\ home[i] \in DOMAIN files \ (shared \cup gone)
            /\ files[home[i]] # NoHeader /\ files[home[i]].id = i
            /\ \A t \in Starters : at[t].pc = "register" => at[t].file # home[i]
        BY DEF FolderInv, DueKnown
      <4>2. CASE home[i] \in visited
        <5>1. i \in DOMAIN cache
          BY <4>1, <4>2 DEF FolderInv, VisitedKnown
        <5>2. cache[i] = home[i]
          BY <5>1 DEF FolderInv, CacheKnown, Known
        <5> QED BY <2>12, <4>1, <5>1, <5>2
      <4> QED BY <2>5, <4>1, <4>2
    <3> QED BY <1>1, <2>5, <2>7, <3>1, <3>2, <3>3 DEF ListKnown
  <2>17. EntryKnown(home, who, owner)'
    <3> SUFFICES ASSUME run.next = "log"
                 PROVE  EntryKnown(home, who, owner)'
      BY <2>5, <2>7 DEF EntryKnown, Asks
    <3>1. Found(run.entry, run.id, home, who, owner) /\ MaySee(run.user, run.entry.user)
      BY <1>1, <2>3 DEF EntryKnown, Asks, run
    <3>2. g.entry = run.entry /\ g.id = run.id
      BY <2>3, <2>5 DEF RequestShape, run
    <3> QED BY <1>1, <2>5, <2>7, <3>1, <3>2 DEF EntryKnown, Found, Known
  <2> QED BY <2>14, <2>15, <2>16, <2>17 DEF QueryInv
<1> QED BY <1>3, <1>4

(* A file that was not visited is read and put into the map.               *)
LEMMA ScanFileKeeps ==
    ASSUME NEW home, NEW who, NEW owner, FolderInv(home, who, owner), QueryInv(home, who, owner),
           NEW f, ScanFile(f)
    PROVE  FolderInv(home, who, owner)' /\ QueryInv(home, who, owner)'
<1> DEFINE run == at["io"]
           fails == f \notin visited /\ f \notin DOMAIN files
           found == f \notin visited /\ f \in Readables
<1>1. /\ run.pc = "scan" /\ f \in run.todo
      /\ UNCHANGED <<files, nextId, alive, gone, shared, due>> /\ visited' = visited \cup {f}
  BY DEF ScanFile, counters
<1>2. run.pc \notin Starting
  BY <1>1 DEF Starting
<1>3. cache' = IF found THEN With(cache, files[f].id, f) ELSE cache
  BY DEF ScanFile
<1>4. found => /\ f \in DOMAIN files /\ files[f] # NoHeader
               /\ Known(files[f].id, f, home, owner)
  BY DEF FolderInv, FilesKnown, Readables, Readable
<1>5. /\ \A i \in DOMAIN cache : i \in DOMAIN cache'
      /\ found => files[f].id \in DOMAIN cache'
      /\ \A i \in DOMAIN cache' : \/ i \in DOMAIN cache /\ cache'[i] = cache[i]
                                  \/ found /\ i = files[f].id /\ cache'[i] = f
  BY <1>3 DEF With
<1>6. CacheKnown(home, owner)'
  <2>1. CacheKnown(home, owner)
    BY DEF FolderInv
  <2> HIDE DEF found
  <2> QED BY <1>1, <1>4, <1>5, <2>1 DEF CacheKnown, Known
<1>7. PICK step : step = IF fails THEN Free ELSE [run EXCEPT !.todo = @ \ {f}]
  OBVIOUS
<1>8. Goes("io", step)
  BY <1>7 DEF ScanFile
<1>9. Querying /\ RequestShape /\ ListKnown(home, who) /\ EntryKnown(home, who, owner)
  BY <1>1 DEF QueryInv, Querying
<1>10. {"pc", "next", "size", "user", "todo"} \subseteq DOMAIN run
  BY <1>1, <1>9 DEF RequestShape
<1>11. /\ fails => step.pc = "free"
       /\ ~fails => /\ DOMAIN step = DOMAIN run /\ step.pc = "scan" /\ step.next = run.next
                    /\ step.user = run.user /\ step.todo = run.todo \ {f}
                    /\ "entries" \in DOMAIN run => step.entries = run.entries
                    /\ "id" \in DOMAIN run => step.id = run.id
                    /\ "entry" \in DOMAIN run => step.entry = run.entry
  BY <1>1, <1>7, <1>10 DEF Free
<1>12. /\ at'["io"] = step /\ \A u \in Threads \ {"io"} : at'[u] = at[u]
  BY <1>8, Went DEF FolderInv, HistoryTypes, Threads
<1>13. \A u \in Starters : (at'[u].pc = "register" <=> at[u].pc = "register")
                           /\ (at'[u].pc = "register" => at'[u] = at[u])
  <2>1. step.pc # "register"
    BY <1>11
  <2> QED BY <1>1, <1>12, <2>1 DEF Starters, Threads
<1>14. VisitedKnown'
  <2>1. VisitedKnown
    BY DEF FolderInv
  <2>2. f \in visited \/ (f \in DOMAIN files /\ files[f] # NoHeader => found)
    BY DEF Readables, Readable
  <2> HIDE DEF found, fails
  <2>3. \A x \in visited' : x \in visited \/ (x = f /\ f \notin visited)
    BY <1>1
  <2> QED BY <1>1, <1>5, <1>13, <2>1, <2>2, <2>3 DEF VisitedKnown
<1>15. DueKnown(home)'
  <2>1. DueKnown(home)
    BY DEF FolderInv
  <2> QED BY <1>1, <1>13, <2>1 DEF DueKnown
<1>16. FolderInv(home, who, owner)'
  <2>1. step.pc \in {"free", "scan"}
    BY <1>11
  <2> HIDE DEF found, fails
  <2> QED BY <1>1, <1>2, <1>5, <1>6, <1>8, <1>14, <1>15, <2>1, RequestFrame
<1>17. CASE fails
  <2>1. at'["io"].pc = "free"
    BY <1>11, <1>12, <1>17
  <2> QED BY <1>16, <2>1, NoRequest
<1>18. CASE ~fails
  <2>1. RequestShape'
    BY <1>1, <1>9, <1>10, <1>11, <1>12, <1>18 DEF RequestShape, Querying
  <2>2. ListKnown(home, who)'
    <3> SUFFICES ASSUME run.next = "list"
                 PROVE  ListKnown(home, who)'
      BY <1>11, <1>12, <1>18 DEF ListKnown, Asks
    <3>1. /\ \A e \in run.entries : MaySee(run.user, e.user)
          /\ \A i \in due : MaySee(run.user, who[i]) /\ (i \in DOMAIN cache \/ home[i] \in run.todo)
      BY <1>1, <1>9 DEF ListKnown, Asks
    <3>2. step.entries = run.entries
      BY <1>9, <1>11, <1>18 DEF RequestShape
    <3>3. ASSUME NEW i \in due
          PROVE  i \in DOMAIN cache' \/ home[i] \in step.todo
      <4>1. CASE i \in DOMAIN cache
        BY <1>5, <4>1
      <4>2. CASE home[i] \in run.todo /\ home[i] # f
        BY <1>11, <1>18, <4>2
      <4>3. CASE home[i] = f
        <5>1. /\ f \in DOMAIN files \ (shared \cup gone)
              /\ files[f] # NoHeader /\ files[f].id = i
              /\ \A t \in Starters : at[t].pc = "register" => at[t].file # f
          BY <4>3 DEF FolderInv, DueKnown
        <5>2. CASE f \in visited
          <6>1. i \in DOMAIN cache
            BY <5>1, <5>2 DEF FolderInv, VisitedKnown
          <6> QED BY <1>5, <6>1
        <5>3. CASE f \notin visited
          BY <1>5, <5>1, <5>3 DEF Readables, Readable
        <5> QED BY <5>2, <5>3
      <4> QED BY <3>1, <4>1, <4>2, <4>3
    <3> HIDE DEF fails, found
    <3> QED BY <1>1, <1>11, <1>12, <1>18, <3>1, <3>2, <3>3 DEF ListKnown
  <2>3. EntryKnown(home, who, owner)'
    <3> SUFFICES ASSUME run.next = "log"
                 PROVE  EntryKnown(home, who, owner)'
      BY <1>11, <1>12, <1>18 DEF EntryKnown, Asks
    <3>1. Found(run.entry, run.id, home, who, owner) /\ MaySee(run.user, run.entry.user)
      BY <1>1, <1>9 DEF EntryKnown, Asks
    <3>2. step.entry = run.entry /\ step.id = run.id
      BY <1>9, <1>11, <1>18 DEF RequestShape
    <3> HIDE DEF fails, found
    <3> QED BY <1>1, <1>11, <1>12, <1>18, <3>1, <3>2 DEF EntryKnown, Found, Known
  <2> QED BY <1>16, <2>1, <2>2, <2>3 DEF QueryInv
<1> QED BY <1>17, <1>18

(* Every step of a request keeps the invariant.                            *)
LEMMA RequestKeeps ==
    ASSUME NEW home, NEW who, NEW owner, FolderInv(home, who, owner), QueryInv(home, who, owner),
           RequestStep
    PROVE  FolderInv(home, who, owner)' /\ QueryInv(home, who, owner)'
<1>1. CASE RespondList
  <2>1. /\ Goes("io", Free) /\ at["io"].pc \notin Starting /\ due' \in SUBSET due
        /\ UNCHANGED <<files, nextId, alive, gone, shared, cache, visited>>
    BY <1>1 DEF RespondList, Quietly, Starting
  <2> QED BY <2>1, EndKeeps
<1>2. CASE RespondLog
  <2>1. /\ Goes("io", Free) /\ at["io"].pc \notin Starting /\ due' \in SUBSET due
        /\ UNCHANGED <<files, nextId, alive, gone, shared, cache, visited>>
    BY <1>2 DEF RespondLog, Quietly, Starting
  <2> QED BY <2>1, EndKeeps
<1>3. CASE \E f \in DOMAIN files \cup visited \cup gone : ScanFile(f)
  BY <1>3, ScanFileKeeps
<1>4. CASE \E id \in DOMAIN cache : ListEntry(id)
  BY <1>4, ListEntryKeeps
<1> QED
  BY <1>1, <1>2, <1>3, <1>4, DropObsoleteKeeps, EndScanKeeps, FindEntryKeeps, FindLogKeeps DEF RequestStep

-----------------------------------------------------------------------------
(* The other threads. *)

(* What is known of a file that is there, or was, stays known.             *)
Keeps(home, owner, home2, owner2) ==
    \A i \in Ids, f \in Names :
        Known(i, f, home, owner) /\ f \in DOMAIN files \cup gone => Known(i, f, home2, owner2)'

(* A request of which no step is taken has no less than before.            *)
LEMMA RequestWaits ==
    ASSUME NEW home, NEW who, NEW owner, FolderInv(home, who, owner), QueryInv(home, who, owner),
           NEW home2, NEW who2, NEW owner2,
           at'["io"] = at["io"], due' \in SUBSET due, DOMAIN cache \subseteq DOMAIN cache',
           DOMAIN files \cup gone \subseteq DOMAIN files' \cup gone',
           Keeps(home, owner, home2, owner2),
           \A i \in Ids : i < nextId => home2[i] = home[i] /\ who2[i] = who[i]
    PROVE  QueryInv(home2, who2, owner2)'
<1> DEFINE run == at["io"]
<1>1. RequestShape /\ ListKnown(home, who) /\ EntryKnown(home, who, owner)
  BY DEF QueryInv
<1>2. RequestShape'
  BY <1>1 DEF RequestShape, Querying
<1>3. ListKnown(home2, who2)'
  <2> SUFFICES ASSUME Asks("list")
               PROVE  ListKnown(home2, who2)'
    BY DEF ListKnown, Asks, Querying
  <2>1. /\ \A e \in run.entries : MaySee(run.user, e.user)
        /\ \A i \in due :
              /\ MaySee(run.user, who[i])
              /\ run.pc = "scan" => i \in DOMAIN cache \/ home[i] \in run.todo
              /\ run.pc = "list" => i \in run.todo \/ \E e \in run.entries : e.id = i
    BY <1>1 DEF ListKnown
  <2>2. \A i \in due : who2[i] = who[i] /\ home2[i] = home[i]
    BY DEF FolderInv, DueKnown, FilesKnown, Known
  <2> QED BY <2>1, <2>2 DEF ListKnown
<1>4. ASSUME NEW part, NEW i, Found(part, i, home, who, owner)
      PROVE  Found(part, i, home2, who2, owner2)'
  BY <1>4 DEF Found, Keeps, Known
<1>5. EntryKnown(home2, who2, owner2)'
  <2>1. Asks("log") \/ run.pc = "answer" =>
            Found(run.entry, run.id, home2, who2, owner2)' /\ MaySee(run.user, run.entry.user)
    BY <1>1, <1>4 DEF EntryKnown
  <2>2. run.pc = "answer" => run.log = NoHeader \/ Found(run.log, run.id, home2, who2, owner2)'
    BY <1>1, <1>4 DEF EntryKnown
  <2> QED BY <2>1, <2>2 DEF EntryKnown, Asks, Querying, Found, Known
<1> QED BY <1>2, <1>3, <1>5 DEF QueryInv

(* A thread that starts an execution does not answer requests.             *)
LEMMA StarterKeepsRequest ==
    ASSUME NEW home, NEW who, NEW owner, FolderInv(home, who, owner), QueryInv(home, who, owner),
           NEW home2, NEW who2, NEW owner2,
           NEW t \in Starters, NEW step, Goes(t, step), step.pc \in Starting \cup {"free"},
           due' \in SUBSET due, DOMAIN cache \subseteq DOMAIN cache',
           DOMAIN files \cup gone \subseteq DOMAIN files' \cup gone',
           Keeps(home, owner, home2, owner2),
           \A i \in Ids : i < nextId => home2[i] = home[i] /\ who2[i] = who[i]
    PROVE  QueryInv(home2, who2, owner2)'
<1>1. t \in Threads /\ "io" \in Threads
  BY DEF Starters, Threads
<1>2. at'[t] = step /\ \A u \in Threads \ {t} : at'[u] = at[u]
  BY <1>1, Went DEF FolderInv, HistoryTypes
<1>3. CASE t = "io"
  BY <1>2, <1>3, NoRequest DEF Starting
<1>4. CASE t # "io"
  BY <1>1, <1>2, <1>4, RequestWaits
<1> QED BY <1>3, <1>4

(* In one life nothing becomes unknown.                                    *)
LEMMA KeepsItself ==
    ASSUME NEW home, NEW owner, UNCHANGED <<nextId, shared>>
    PROVE  Keeps(home, owner, home, owner)
BY DEF Keeps, Known

(* A thread goes on with the start of its execution.                       *)
LEMMA StarterMoves ==
    ASSUME NEW home, NEW who, NEW owner, FolderInv(home, who, owner), QueryInv(home, who, owner),
           NEW t \in Starters, at[t].pc \in Starting,
           NEW label \in {"header", "register"},
           NEW step, step = [at[t] EXCEPT !.pc = label], Goes(t, step),
           UNCHANGED <<cache, nextId, due, gone, shared>>,
           DOMAIN files \subseteq DOMAIN files', at[t].file \in DOMAIN files' \cup gone
    PROVE  /\ at[t].user \in Users
           /\ Known(at[t].id, at[t].file, home, owner)
           /\ who[at[t].id] = at[t].user
           /\ at'[t].pc = label /\ at'[t].id = at[t].id /\ at'[t].file = at[t].file
           /\ DOMAIN at' = Threads /\ at'["finisher"] = at["finisher"]
           /\ \A u \in Starters \ {t} : at'[u] = at[u]
           /\ at'["scheduler"].pc \in Starting \cup {"free"}
           /\ at'["io"].pc \in Starting \cup {"free", "obsolete", "scan", "list", "find", "log", "answer"}
           /\ StartsKnown(home, who, owner)' /\ QueryInv(home, who, owner)'
<1> DEFINE g == at[t].file
<1>3. /\ at[t] = [pc |-> at[t].pc, id |-> at[t].id, user |-> at[t].user, file |-> at[t].file]
      /\ at[t].user \in Users
      /\ Known(at[t].id, g, home, owner)
      /\ who[at[t].id] = at[t].user
  BY DEF FolderInv, StartsKnown
<1>4. step = [pc |-> label, id |-> at[t].id, user |-> at[t].user, file |-> g]
  BY <1>3
<1>5. /\ DOMAIN at' = Threads /\ at'[t] = step
      /\ \A u \in Threads \ {t} : at'[u] = at[u]
  BY Went DEF FolderInv, HistoryTypes, Threads, Starters
<1>6. at'["finisher"] = at["finisher"] /\ \A u \in Starters \ {t} : at'[u] = at[u]
  BY <1>5 DEF Starters, Threads
<1>7. /\ at'["scheduler"].pc \in Starting \cup {"free"}
      /\ at'["io"].pc \in Starting \cup {"free", "obsolete", "scan", "list", "find", "log", "answer"}
  <2>1. HistoryTypes
    BY DEF FolderInv
  <2> QED BY <1>4, <1>5, <2>1 DEF HistoryTypes, Starting, Threads
<1>8. g \in DOMAIN files' \cup gone /\ DOMAIN files \cup gone \subseteq DOMAIN files' \cup gone'
  OBVIOUS
<1> HIDE DEF g
<1>9. StartsKnown(home, who, owner)'
  <2>1. StartsKnown(home, who, owner)
    BY DEF FolderInv
  <2>2. ASSUME NEW u \in Starters, at'[u].pc \in Starting
        PROVE  /\ at'[u] = [pc |-> at'[u].pc, id |-> at'[u].id, user |-> at'[u].user, file |-> at'[u].file]
               /\ at'[u].user \in Users
               /\ Known(at[u].id, at[u].file, home, owner)
               /\ at'[u].id = at[u].id /\ at'[u].file = at[u].file
               /\ who[at'[u].id] = at'[u].user
               /\ at'[u].pc # "open" => at'[u].file \in DOMAIN files' \cup gone
    <3>1. CASE u = t
      BY <1>3, <1>4, <1>5, <1>8, <3>1 DEF g
    <3>2. CASE u # t
      <4>1. at'[u] = at[u]
        BY <1>6, <3>2
      <4> QED BY <1>8, <2>1, <2>2, <4>1 DEF StartsKnown
    <3> QED BY <3>1, <3>2
  <2> QED BY <2>2 DEF StartsKnown, Known
<1>10. QueryInv(home, who, owner)'
  <2>1. step.pc \in Starting
    BY <1>4 DEF Starting
  <2> QED BY <1>8, <2>1, KeepsItself, StarterKeepsRequest
<1> QED BY <1>3, <1>4, <1>5, <1>6, <1>7, <1>9, <1>10 DEF g

(* The file is new: what was known is of others.                           *)
LEMMA OpenLogFileKeeps ==
    ASSUME NEW home, NEW who, NEW owner, FolderInv(home, who, owner), QueryInv(home, who, owner),
           NEW t \in Starters, OpenLogFile(t)
    PROVE  FolderInv(home, who, owner)' /\ QueryInv(home, who, owner)'
<1> DEFINE g == at[t].file
<1>1. /\ at[t].pc = "open" /\ at[t].pc \in Starting /\ files' = With(files, g, NoHeader)
      /\ UNCHANGED <<visited, cache, nextId, alive, due, gone, shared>>
  BY DEF OpenLogFile, Starting
<1>0. PICK step : step = [at[t] EXCEPT !.pc = "header"] /\ Goes(t, step)
  BY DEF OpenLogFile
<1>2. /\ DOMAIN files' = DOMAIN files \cup {g} /\ files'[g] = NoHeader
      /\ \A f \in DOMAIN files \ {g} : files'[f] = files[f]
  BY <1>1 DEF With
<1>3. /\ Known(at[t].id, g, home, owner)
      /\ at'[t].pc = "header" /\ at'[t].id = at[t].id
      /\ DOMAIN at' = Threads /\ at'["finisher"] = at["finisher"]
      /\ \A u \in Starters \ {t} : at'[u] = at[u]
      /\ at'["scheduler"].pc \in Starting \cup {"free"}
      /\ at'["io"].pc \in Starting \cup {"free", "obsolete", "scan", "list", "find", "log", "answer"}
      /\ StartsKnown(home, who, owner)' /\ QueryInv(home, who, owner)'
  BY <1>0, <1>1, <1>2, StarterMoves
<1>4. \A u \in Starters : /\ at'[u].pc = "register" <=> at[u].pc = "register"
                          /\ at'[u].pc = "register" => at'[u] = at[u]
                          /\ at'[u].pc \in Starting <=> at[u].pc \in Starting
                          /\ at'[u].pc \in {"open", "header"} <=> at[u].pc \in {"open", "header"}
                          /\ at'[u].pc \in Starting => at'[u].id = at[u].id
  BY <1>1, <1>3 DEF Starting
<1> HIDE DEF g
<1>5. HistoryTypes'
  <2>1. HistoryTypes
    BY DEF FolderInv
  <2>2. IsFiniteSet(DOMAIN files') /\ DOMAIN files' \subseteq Names
    BY <1>2, <1>3, <2>1, FS_AddElement DEF HistoryTypes, Known
  <2> QED BY <1>1, <1>2, <1>3, <2>1, <2>2 DEF HistoryTypes
<1>6. FilesKnown(home, who, owner)' /\ CacheKnown(home, owner)'
  <2>1. FilesKnown(home, who, owner) /\ CacheKnown(home, owner)
    BY DEF FolderInv
  <2>2. FilesKnown(home, who, owner)'
    BY <1>1, <1>2, <2>1 DEF FilesKnown, Known
  <2> QED BY <1>1, <1>2, <2>1, <2>2 DEF CacheKnown, Known
<1>7. CodeKnown(home, who, owner)'
  <2>1. CodeKnown(home, who, owner) /\ FreshKnown
    BY DEF FolderInv
  <2>2. at["finisher"].pc \in {"truncate", "write"} /\ at["finisher"].file = g => g \in shared
    BY <1>1, <1>3, <2>1 DEF CodeKnown, FreshKnown, Known
  <2> QED BY <1>1, <1>2, <1>3, <2>1, <2>2 DEF CodeKnown, Known
<1>8. FreshKnown'
  <2>1. FreshKnown
    BY DEF FolderInv
  <2>2. \A u \in Starters : at'[u].pc \in {"open", "header"} => at'[u].pc \in Starting
    BY DEF Starting
  <2> QED BY <1>2, <1>3, <1>4, <2>1, <2>2 DEF FreshKnown
<1>9. VisitedKnown'
  <2>1. VisitedKnown
    BY DEF FolderInv
  <2> QED BY <1>1, <1>2, <1>4, <2>1 DEF VisitedKnown
<1>10. DueKnown(home)'
  <2>1. DueKnown(home) /\ FreshKnown /\ FilesKnown(home, who, owner)
    BY DEF FolderInv
  <2>2. \A i \in due : home[i] # g
    BY <1>1, <1>3, <2>1 DEF DueKnown, FreshKnown, FilesKnown, Known
  <2> QED BY <1>1, <1>2, <1>4, <2>1, <2>2 DEF DueKnown
<1>11. Books(home, who, owner)'
  BY DEF FolderInv, Books
<1> QED
  BY <1>3, <1>5, <1>6, <1>7, <1>8, <1>9, <1>10, <1>11 DEF FolderInv

(* The header is written into a file that is due to nobody.                *)
LEMMA WriteHeaderKeeps ==
    ASSUME NEW home, NEW who, NEW owner, FolderInv(home, who, owner), QueryInv(home, who, owner),
           NEW t \in Starters, WriteHeader(t)
    PROVE  FolderInv(home, who, owner)' /\ QueryInv(home, who, owner)'
<1> DEFINE g == at[t].file
           c == [id |-> at[t].id, user |-> at[t].user, code |-> 0]
<1>1. /\ at[t].pc = "header" /\ at[t].pc \in Starting
      /\ files' = IF g \notin DOMAIN files THEN files ELSE [files EXCEPT ![g] = c]
      /\ UNCHANGED <<visited, cache, nextId, alive, due, gone, shared>>
  BY DEF WriteHeader, Starting
<1>2. /\ DOMAIN files' = DOMAIN files
      /\ g \in DOMAIN files => files'[g] = c
      /\ \A f \in DOMAIN files \ {g} : files'[f] = files[f]
  BY <1>1
<1>0. PICK step : step = [at[t] EXCEPT !.pc = "register"] /\ Goes(t, step)
  BY DEF WriteHeader
<1>3. /\ at[t].user \in Users /\ who[at[t].id] = at[t].user
      /\ Known(at[t].id, g, home, owner)
      /\ at'[t].pc = "register" /\ at'[t].id = at[t].id /\ at'[t].file = g
      /\ DOMAIN at' = Threads /\ at'["finisher"] = at["finisher"]
      /\ \A u \in Starters \ {t} : at'[u] = at[u]
      /\ at'["scheduler"].pc \in Starting \cup {"free"}
      /\ at'["io"].pc \in Starting \cup {"free", "obsolete", "scan", "list", "find", "log", "answer"}
      /\ StartsKnown(home, who, owner)' /\ QueryInv(home, who, owner)'
  <2>1. at[t].pc \in Starting /\ UNCHANGED <<cache, nextId, due, gone, shared>>
    BY <1>1
  <2>2. DOMAIN files \subseteq DOMAIN files' /\ at[t].file \in DOMAIN files' \cup gone
    <3>1. g \in DOMAIN files \cup gone
      BY <1>1 DEF FolderInv, StartsKnown
    <3> QED BY <1>2, <3>1
  <2> HIDE DEF c
  <2> QED BY <1>0, <2>1, <2>2, StarterMoves
<1>4. \A u \in Starters : /\ at[u].pc = "register" => at'[u] = at[u]
                          /\ at'[u].pc = "register" => u = t \/ at'[u] = at[u]
                          /\ at'[u].pc \in {"open", "header"} => at'[u] = at[u] /\ u # t
                          /\ at'[u].pc \in Starting => at[u].pc \in Starting /\ at'[u].id = at[u].id
  BY <1>1, <1>3 DEF Starting
<1>5. c \in Content /\ c # NoHeader /\ c.id = at[t].id /\ c.user = at[t].user /\ c.code = 0
  BY <1>3, HistoryAssumption DEF Known, Content, NoHeader, Ids
<1> HIDE DEF g, c
<1>6. HistoryTypes'
  <2>1. HistoryTypes
    BY DEF FolderInv
  <2> QED BY <1>1, <1>2, <1>3, <1>5, <2>1 DEF HistoryTypes
<1>7. FilesKnown(home, who, owner)' /\ CacheKnown(home, owner)'
  <2>1. FilesKnown(home, who, owner) /\ CacheKnown(home, owner)
    BY DEF FolderInv
  <2>2. FilesKnown(home, who, owner)'
    <3> SUFFICES ASSUME NEW f \in DOMAIN files', files'[f] # NoHeader
                 PROVE  /\ Known(files'[f].id, f, home, owner)
                        /\ who[files'[f].id] = files'[f].user
                        /\ f \notin shared => files'[f].code \in {0, files'[f].id}
      BY <1>1 DEF FilesKnown, Known
    <3>1. CASE f = g
      BY <1>2, <1>3, <1>5, <3>1
    <3>2. CASE f # g
      BY <1>2, <2>1, <3>2 DEF FilesKnown
    <3> QED BY <3>1, <3>2
  <2> QED BY <1>1, <1>2, <2>1, <2>2 DEF CacheKnown, Known
<1>8. CodeKnown(home, who, owner)'
  <2>1. CodeKnown(home, who, owner)
    BY DEF FolderInv
  <2> QED BY <1>1, <1>2, <1>3, <2>1 DEF CodeKnown, Known
<1>9. FreshKnown'
  <2>1. FreshKnown
    BY DEF FolderInv
  <2> SUFFICES ASSUME NEW u \in Starters, at'[u].pc \in {"open", "header"}
               PROVE  /\ \A f \in DOMAIN files' : files'[f] # NoHeader => files'[f].id # at'[u].id
                      /\ at'["finisher"].pc \in {"truncate", "write"} => at'["finisher"].new.id # at'[u].id
                      /\ \A v \in Starters \ {u} : at'[v].pc \in Starting => at'[v].id # at'[u].id
    BY DEF FreshKnown
  <2>2. at'[u] = at[u] /\ u # t /\ at[u].pc \in {"open", "header"}
    BY <1>4
  <2>3. at[t].id # at[u].id
    BY <1>1, <2>1, <2>2 DEF FreshKnown
  <2>4. \A f \in DOMAIN files' : files'[f] # NoHeader => files'[f].id # at'[u].id
    BY <1>2, <1>5, <2>1, <2>2, <2>3 DEF FreshKnown
  <2> QED BY <1>3, <1>4, <2>1, <2>2, <2>4 DEF FreshKnown
<1>10. VisitedKnown'
  <2>1. VisitedKnown
    BY DEF FolderInv
  <2> SUFFICES ASSUME NEW f \in (visited \cap DOMAIN files) \ (shared \cup gone), files'[f] # NoHeader
               PROVE  \/ files'[f].id \in DOMAIN cache
                      \/ \E u \in Starters : at'[u].pc = "register" /\ at'[u].file = f
    BY <1>1, <1>2 DEF VisitedKnown
  <2>2. CASE f = g
    BY <1>3, <2>2
  <2>3. CASE f # g
    BY <1>2, <1>4, <2>1, <2>3 DEF VisitedKnown
  <2> QED BY <2>2, <2>3
<1>11. DueKnown(home)'
  <2>1. DueKnown(home) /\ FreshKnown /\ FilesKnown(home, who, owner)
    BY DEF FolderInv
  <2>2. \A i \in due : home[i] # g
    BY <1>1, <1>3, <2>1 DEF DueKnown, FreshKnown, FilesKnown, Known
  <2> QED BY <1>1, <1>2, <1>3, <1>4, <2>1, <2>2 DEF DueKnown
<1>12. Books(home, who, owner)'
  BY DEF FolderInv, Books
<1> QED
  BY <1>3, <1>6, <1>7, <1>8, <1>9, <1>10, <1>11, <1>12 DEF FolderInv

(* The map gets the file that was written.                                 *)
LEMMA RegisterLogKeeps ==
    ASSUME NEW home, NEW who, NEW owner, FolderInv(home, who, owner), QueryInv(home, who, owner),
           NEW t \in Starters, RegisterLog(t)
    PROVE  FolderInv(home, who, owner)' /\ QueryInv(home, who, owner)'
<1> DEFINE g == at[t].file
           id == at[t].id
<1>1. /\ at[t].pc = "register" /\ at[t].pc \in Starting
      /\ visited' = visited \cup {g} /\ cache' = With(cache, id, g) /\ alive' = alive \cup {id}
      /\ Goes(t, Free)
      /\ UNCHANGED <<files, nextId, due, gone, shared>>
  BY DEF RegisterLog, Starting
<1>2. DOMAIN cache' = DOMAIN cache \cup {id} /\ cache'[id] = g
      /\ \A i \in DOMAIN cache \ {id} : cache'[i] = cache[i]
  BY <1>1 DEF With
<1>3. Known(id, g, home, owner) /\ g \in DOMAIN files \cup gone
  BY <1>1 DEF FolderInv, StartsKnown
<1>4. /\ t \in Threads /\ DOMAIN at' = Threads /\ at'[t].pc = "free"
      /\ \A u \in Threads \ {t} : at'[u] = at[u]
  BY <1>1, Went DEF FolderInv, HistoryTypes, Threads, Starters, Free
<1>5. /\ at'["finisher"] = at["finisher"]
      /\ \A u \in Starters \ {t} : at'[u] = at[u]
      /\ \A u \in Starters : at'[u].pc \in Starting => u # t /\ at'[u] = at[u]
  BY <1>4 DEF Starters, Threads, Starting
<1> HIDE DEF g, id
<1>6. HistoryTypes'
  <2>1. HistoryTypes
    BY DEF FolderInv
  <2>2. alive' \subseteq Ids
    BY <1>1, <1>3, <2>1 DEF HistoryTypes, Known
  <2>3. /\ at'["scheduler"].pc \in Starting \cup {"free"}
        /\ at'["io"].pc \in Starting \cup {"free", "obsolete", "scan", "list", "find", "log", "answer"}
    BY <1>4, <2>1 DEF HistoryTypes, Threads
  <2> QED BY <1>1, <1>4, <1>5, <2>1, <2>2, <2>3 DEF HistoryTypes
<1>7. FilesKnown(home, who, owner)' /\ CacheKnown(home, owner)'
  <2>1. FilesKnown(home, who, owner) /\ CacheKnown(home, owner)
    BY DEF FolderInv
  <2>2. FilesKnown(home, who, owner)'
    BY <1>1, <2>1 DEF FilesKnown, Known
  <2>3. \A i \in DOMAIN cache' : Known(i, cache'[i], home, owner) /\ cache'[i] \in DOMAIN files \cup gone
    BY <1>2, <1>3, <2>1 DEF CacheKnown
  <2> QED BY <1>1, <2>2, <2>3 DEF CacheKnown, Known
<1>8. StartsKnown(home, who, owner)'
  <2>1. StartsKnown(home, who, owner)
    BY DEF FolderInv
  <2> QED BY <1>1, <1>5, <2>1 DEF StartsKnown, Known
<1>9. CodeKnown(home, who, owner)'
  <2>1. CodeKnown(home, who, owner)
    BY DEF FolderInv
  <2> QED BY <1>1, <1>2, <1>5, <2>1 DEF CodeKnown, Known
<1>10. FreshKnown'
  <2>1. FreshKnown
    BY DEF FolderInv
  <2>2. \A u \in Starters : at'[u].pc \in {"open", "header"} => at'[u].pc \in Starting
    BY DEF Starting
  <2> QED BY <1>1, <1>5, <2>1, <2>2 DEF FreshKnown
<1>11. VisitedKnown'
  <2>1. VisitedKnown /\ FilesKnown(home, who, owner)
    BY DEF FolderInv
  <2> SUFFICES ASSUME NEW f \in (visited' \cap DOMAIN files) \ (shared \cup gone), files[f] # NoHeader
               PROVE  \/ files[f].id \in DOMAIN cache'
                      \/ \E u \in Starters : at'[u].pc = "register" /\ at'[u].file = f
    BY <1>1 DEF VisitedKnown
  <2>2. CASE f = g
    <3>1. files[f].id = id
      BY <1>3, <2>1, <2>2 DEF FilesKnown, Known
    <3> QED BY <1>2, <3>1
  <2>3. CASE f # g
    <3>1. \/ files[f].id \in DOMAIN cache
          \/ \E u \in Starters : at[u].pc = "register" /\ at[u].file = f
      BY <1>1, <2>1, <2>3 DEF VisitedKnown
    <3> QED BY <1>2, <1>5, <2>3, <3>1 DEF g
  <2> QED BY <2>2, <2>3
<1>12. DueKnown(home)'
  <2>1. DueKnown(home)
    BY DEF FolderInv
  <2>2. \A u \in Starters : at'[u].pc = "register" => at'[u].pc \in Starting
    BY DEF Starting
  <2> QED BY <1>1, <1>5, <2>1, <2>2 DEF DueKnown
<1>13. QueryInv(home, who, owner)'
  <2>1. Free.pc \in Starting \cup {"free"}
    BY DEF Free
  <2> HIDE DEF Free
  <2> QED BY <1>1, <1>2, <2>1, KeepsItself, StarterKeepsRequest
<1>14. Books(home, who, owner)'
  BY DEF FolderInv, Books
<1> QED
  BY <1>6, <1>7, <1>8, <1>9, <1>10, <1>11, <1>12, <1>13, <1>14 DEF FolderInv

-----------------------------------------------------------------------------
(* The thread that adds the exit codes. *)

(* While it goes on, nobody else does.                                     *)
LEMMA FinisherMoves ==
    ASSUME NEW home, NEW who, NEW owner, FolderInv(home, who, owner), QueryInv(home, who, owner),
           NEW step, Goes("finisher", step) \/ (at' = at /\ step = at["finisher"]),
           UNCHANGED <<cache, nextId, gone, shared>>,
           due' \in SUBSET due, DOMAIN files \cup gone \subseteq DOMAIN files' \cup gone
    PROVE  /\ DOMAIN at' = Threads /\ at'["finisher"] = step
           /\ at'["io"] = at["io"]
           /\ \A t \in Starters : at'[t] = at[t]
           /\ StartsKnown(home, who, owner)' /\ QueryInv(home, who, owner)'
<1>1. /\ DOMAIN at' = Threads /\ at'["finisher"] = step
      /\ \A t \in Threads \ {"finisher"} : at'[t] = at[t]
  <2>1. CASE at' = at /\ step = at["finisher"]
    BY <2>1 DEF FolderInv, HistoryTypes
  <2>2. CASE Goes("finisher", step)
    BY <2>2, Went DEF FolderInv, HistoryTypes, Threads
  <2> QED BY <2>1, <2>2
<1>2. at'["io"] = at["io"] /\ \A t \in Starters : at'[t] = at[t]
  BY <1>1 DEF Starters, Threads
<1>3. StartsKnown(home, who, owner)'
  <2>1. StartsKnown(home, who, owner)
    BY DEF FolderInv
  <2> QED BY <1>2, <2>1 DEF StartsKnown, Known
<1>4. QueryInv(home, who, owner)'
  BY <1>2, KeepsItself, RequestWaits
<1> QED BY <1>1, <1>2, <1>3, <1>4

(* The file the map leads to is read: it is that of the execution.         *)
LEMMA ReadToRewriteKeeps ==
    ASSUME NEW home, NEW who, NEW owner, FolderInv(home, who, owner), QueryInv(home, who, owner),
           NEW id \in alive, ReadToRewrite(id)
    PROVE  FolderInv(home, who, owner)' /\ QueryInv(home, who, owner)'
<1> DEFINE f == IF id \in DOMAIN cache THEN cache[id] ELSE <<>>
           new == [files[f] EXCEPT !.code = id]
           step == IF f \in Readables THEN [pc |-> "truncate", file |-> f, new |-> new]
                   ELSE at["finisher"]
<1>1. /\ alive' = alive \ {id} /\ at["finisher"] = Free
      /\ UNCHANGED <<files, visited, cache, nextId, due, gone, shared>>
      /\ Goes("finisher", step) \/ (at' = at /\ step = at["finisher"])
  BY DEF ReadToRewrite
<1> HIDE DEF step
<1>2. /\ DOMAIN at' = Threads /\ at'["finisher"] = step
      /\ at'["io"] = at["io"]
      /\ \A t \in Starters : at'[t] = at[t]
      /\ StartsKnown(home, who, owner)' /\ QueryInv(home, who, owner)'
  BY <1>1, FinisherMoves
<1>3. ASSUME f \in Readables
      PROVE  /\ id \in DOMAIN cache /\ f \in DOMAIN files
             /\ Known(id, f, home, owner) /\ Known(files[f].id, f, home, owner)
             /\ new \in Content /\ new.id = files[f].id /\ new.user = files[f].user /\ new.code = id
             /\ who[new.id] = new.user
  <2>1. f \in DOMAIN files /\ files[f] # NoHeader
    BY <1>3 DEF Readables, Readable
  <2>2. files[f] \in Content /\ DOMAIN files \subseteq Names /\ id \in Ids
    BY <2>1 DEF FolderInv, HistoryTypes
  <2>3. id \in DOMAIN cache
    BY <2>1, <2>2, NoNameIsEmpty
  <2>4. new \in Content /\ new.id = files[f].id /\ new.user = files[f].user /\ new.code = id
    BY <2>2, HistoryAssumption DEF Content, Ids
  <2> HIDE DEF new
  <2>5. Known(files[f].id, f, home, owner) /\ who[files[f].id] = files[f].user
    BY <2>1 DEF FolderInv, FilesKnown
  <2>6. Known(id, f, home, owner)
    BY <2>3 DEF FolderInv, CacheKnown
  <2> QED BY <2>1, <2>3, <2>4, <2>5, <2>6
<1> HIDE DEF f, new
<1>4. \/ f \in Readables /\ step = [pc |-> "truncate", file |-> f, new |-> new]
      \/ step = at["finisher"]
  BY DEF step
<1>5. step.pc \in {"free", "truncate"}
  BY <1>1, <1>4 DEF Free
<1>6. HistoryTypes' /\ Books(home, who, owner)'
  <2>1. HistoryTypes /\ Books(home, who, owner)
    BY DEF FolderInv
  <2>2. at'["scheduler"] = at["scheduler"]
    BY <1>2 DEF Starters
  <2>3. Books(home, who, owner)'
    BY <2>1 DEF Books
  <2> QED BY <1>1, <1>2, <1>5, <2>1, <2>2, <2>3 DEF HistoryTypes
<1>7. FilesKnown(home, who, owner)' /\ CacheKnown(home, owner)'
  <2>1. FilesKnown(home, who, owner) /\ CacheKnown(home, owner)
    BY DEF FolderInv
  <2> QED BY <1>1, <2>1 DEF FilesKnown, CacheKnown, Known
<1>8. CodeKnown(home, who, owner)' /\ FreshKnown'
  <2>0. FreshKnown /\ FilesKnown(home, who, owner)
    BY DEF FolderInv
  <2>1. CASE f \in Readables /\ step = [pc |-> "truncate", file |-> f, new |-> new]
    <3>1. CodeKnown(home, who, owner)'
      BY <1>1, <1>2, <1>3, <2>1 DEF CodeKnown, Known
    <3>2. f \in DOMAIN files /\ files[f] # NoHeader /\ new.id = files[f].id
      BY <1>3, <2>1 DEF Readables, Readable
    <3>3. FreshKnown'
      BY <1>1, <1>2, <2>0, <2>1, <3>2 DEF FreshKnown
    <3> QED BY <3>1, <3>3
  <2>2. CASE step = at["finisher"]
    BY <1>1, <1>2, <2>0, <2>2 DEF CodeKnown, FreshKnown, Free
  <2> QED BY <1>4, <2>1, <2>2
<1>9. VisitedKnown' /\ DueKnown(home)'
  <2>1. VisitedKnown /\ DueKnown(home)
    BY DEF FolderInv
  <2>2. VisitedKnown'
    BY <1>1, <1>2, <2>1 DEF VisitedKnown
  <2>3. DueKnown(home)'
    BY <1>1, <1>2, <2>1 DEF DueKnown
  <2> QED BY <2>2, <2>3
<1> QED BY <1>2, <1>6, <1>7, <1>8, <1>9 DEF FolderInv

(* The file is emptied, or comes back when it was deleted: it is not due   *)
(* any more.                                                               *)
LEMMA TruncateLogKeeps ==
    ASSUME NEW home, NEW who, NEW owner, FolderInv(home, who, owner), QueryInv(home, who, owner),
           TruncateLog
    PROVE  FolderInv(home, who, owner)' /\ QueryInv(home, who, owner)'
<1> DEFINE run == at["finisher"]
<1>1. /\ run.pc = "truncate" /\ files' = With(files, run.file, NoHeader)
      /\ due' = due \ {run.new.id}
      /\ UNCHANGED <<visited, cache, nextId, alive, gone, shared>>
  BY DEF TruncateLog
<1>2. PICK step : step = [run EXCEPT !.pc = "write"]
  OBVIOUS
<1>3. Goes("finisher", step)
  BY <1>2 DEF TruncateLog
<1>4. /\ run = [pc |-> run.pc, file |-> run.file, new |-> run.new]
      /\ run.new \in Content
      /\ Known(run.new.id, run.file, home, owner)
      /\ who[run.new.id] = run.new.user
      /\ run.file \notin shared => run.new.code = run.new.id
      /\ run.file \in DOMAIN files \cup gone
      /\ run.file \in DOMAIN files \ (shared \cup gone) => run.new.id \in DOMAIN cache
  BY <1>1 DEF FolderInv, CodeKnown
<1>5. step = [pc |-> "write", file |-> run.file, new |-> run.new]
  BY <1>2, <1>4
<1>6. /\ DOMAIN files' = DOMAIN files \cup {run.file} /\ files'[run.file] = NoHeader
      /\ \A f \in DOMAIN files \ {run.file} : files'[f] = files[f]
  BY <1>1 DEF With
<1>7. /\ DOMAIN at' = Threads /\ at'["finisher"] = step
      /\ at'["io"] = at["io"]
      /\ \A t \in Starters : at'[t] = at[t]
      /\ StartsKnown(home, who, owner)' /\ QueryInv(home, who, owner)'
  BY <1>1, <1>3, <1>6, FinisherMoves
<1> HIDE DEF run
<1>8. HistoryTypes' /\ Books(home, who, owner)'
  <2>1. HistoryTypes /\ Books(home, who, owner)
    BY DEF FolderInv
  <2>2. at'["scheduler"] = at["scheduler"]
    BY <1>7 DEF Starters
  <2>3. Books(home, who, owner)'
    BY <2>1 DEF Books
  <2>4. IsFiniteSet(DOMAIN files') /\ DOMAIN files' \subseteq Names
    BY <1>4, <1>6, <2>1, FS_AddElement DEF HistoryTypes, Known
  <2> QED BY <1>1, <1>5, <1>6, <1>7, <2>1, <2>2, <2>3, <2>4 DEF HistoryTypes
<1>9. FilesKnown(home, who, owner)' /\ CacheKnown(home, owner)'
  <2>1. FilesKnown(home, who, owner) /\ CacheKnown(home, owner)
    BY DEF FolderInv
  <2>2. FilesKnown(home, who, owner)'
    BY <1>1, <1>6, <2>1 DEF FilesKnown, Known
  <2> QED BY <1>1, <1>6, <2>1, <2>2 DEF CacheKnown, Known
<1>10. CodeKnown(home, who, owner)'
  <2>1. run.file \in DOMAIN files' \ (shared \cup gone) => run.new.id \in DOMAIN cache
    BY <1>4
  <2> QED BY <1>1, <1>4, <1>5, <1>6, <1>7, <2>1 DEF CodeKnown, Known
<1>11. FreshKnown'
  <2>1. FreshKnown
    BY DEF FolderInv
  <2> QED BY <1>1, <1>5, <1>6, <1>7, <2>1 DEF FreshKnown, run
<1>12. VisitedKnown'
  <2>1. VisitedKnown
    BY DEF FolderInv
  <2>2. \A f \in (visited \cap DOMAIN files') \ (shared \cup gone) : files'[f] # NoHeader =>
            f \in (visited \cap DOMAIN files) \ (shared \cup gone) /\ files'[f] = files[f]
    BY <1>6
  <2> QED BY <1>1, <1>7, <2>1, <2>2 DEF VisitedKnown
<1>13. DueKnown(home)'
  <2>1. DueKnown(home) /\ FilesKnown(home, who, owner)
    BY DEF FolderInv
  <2>2. \A i \in due' : i \in due /\ home[i] # run.file
    BY <1>1, <1>4, <2>1 DEF DueKnown, FilesKnown, Known
  <2> QED BY <1>1, <1>6, <1>7, <2>1, <2>2 DEF DueKnown
<1> QED BY <1>7, <1>8, <1>9, <1>10, <1>11, <1>12, <1>13 DEF FolderInv

(* What was read is written back, with the exit code.                      *)
LEMMA RewriteLogKeeps ==
    ASSUME NEW home, NEW who, NEW owner, FolderInv(home, who, owner), QueryInv(home, who, owner),
           RewriteLog
    PROVE  FolderInv(home, who, owner)' /\ QueryInv(home, who, owner)'
<1> DEFINE run == at["finisher"]
<1>1. /\ run.pc = "write" /\ Goes("finisher", Free)
      /\ files' = IF run.file \in DOMAIN files THEN [files EXCEPT ![run.file] = run.new] ELSE files
      /\ UNCHANGED <<visited, cache, nextId, alive, due, gone, shared>>
  BY DEF RewriteLog
<1>2. /\ run.new \in Content
      /\ Known(run.new.id, run.file, home, owner)
      /\ who[run.new.id] = run.new.user
      /\ run.file \notin shared => run.new.code = run.new.id
      /\ run.file \in DOMAIN files \ (shared \cup gone) => run.new.id \in DOMAIN cache
  BY <1>1 DEF FolderInv, CodeKnown
<1>3. /\ DOMAIN files' = DOMAIN files
      /\ run.file \in DOMAIN files => files'[run.file] = run.new
      /\ \A f \in DOMAIN files \ {run.file} : files'[f] = files[f]
  BY <1>1
<1>4. run.new # NoHeader
  BY <1>2 DEF Content, NoHeader, Ids
<1>5. /\ DOMAIN at' = Threads /\ at'["finisher"].pc = "free"
      /\ at'["io"] = at["io"]
      /\ \A t \in Starters : at'[t] = at[t]
      /\ StartsKnown(home, who, owner)' /\ QueryInv(home, who, owner)'
  BY <1>1, <1>3, FinisherMoves DEF Free
<1> HIDE DEF run
<1>6. HistoryTypes' /\ Books(home, who, owner)'
  <2>1. HistoryTypes /\ Books(home, who, owner)
    BY DEF FolderInv
  <2>2. at'["scheduler"] = at["scheduler"]
    BY <1>5 DEF Starters
  <2>3. Books(home, who, owner)'
    BY <2>1 DEF Books
  <2> QED BY <1>1, <1>2, <1>3, <1>5, <2>1, <2>2, <2>3 DEF HistoryTypes
<1>7. FilesKnown(home, who, owner)' /\ CacheKnown(home, owner)'
  <2>1. FilesKnown(home, who, owner) /\ CacheKnown(home, owner)
    BY DEF FolderInv
  <2>2. FilesKnown(home, who, owner)'
    <3> SUFFICES ASSUME NEW f \in DOMAIN files', files'[f] # NoHeader
                 PROVE  /\ Known(files'[f].id, f, home, owner)
                        /\ who[files'[f].id] = files'[f].user
                        /\ f \notin shared => files'[f].code \in {0, files'[f].id}
      BY <1>1 DEF FilesKnown, Known
    <3>1. CASE f = run.file
      BY <1>2, <1>3, <3>1
    <3>2. CASE f # run.file
      BY <1>3, <2>1, <3>2 DEF FilesKnown
    <3> QED BY <3>1, <3>2
  <2> QED BY <1>1, <1>3, <2>1, <2>2 DEF CacheKnown, Known
<1>8. CodeKnown(home, who, owner)'
  BY <1>5 DEF CodeKnown
<1>9. FreshKnown'
  <2>1. FreshKnown
    BY DEF FolderInv
  <2>2. \A f \in DOMAIN files' : \A t \in Starters : at[t].pc \in {"open", "header"} =>
            (files'[f] # NoHeader => files'[f].id # at[t].id)
    <3> SUFFICES ASSUME NEW f \in DOMAIN files', NEW t \in Starters,
                        at[t].pc \in {"open", "header"}, files'[f] # NoHeader
                 PROVE  files'[f].id # at[t].id
      OBVIOUS
    <3>1. CASE f = run.file
      BY <1>1, <1>3, <2>1, <3>1 DEF FreshKnown, run
    <3>2. CASE f # run.file
      BY <1>3, <2>1, <3>2 DEF FreshKnown
    <3> QED BY <3>1, <3>2
  <2> QED BY <1>5, <2>1, <2>2 DEF FreshKnown
<1>10. VisitedKnown'
  <2>1. VisitedKnown
    BY DEF FolderInv
  <2> SUFFICES ASSUME NEW f \in (visited \cap DOMAIN files) \ (shared \cup gone), files'[f] # NoHeader
               PROVE  \/ files'[f].id \in DOMAIN cache
                      \/ \E u \in Starters : at'[u].pc = "register" /\ at'[u].file = f
    BY <1>1, <1>3 DEF VisitedKnown
  <2>2. CASE f = run.file
    BY <1>2, <1>3, <2>2
  <2>3. CASE f # run.file
    BY <1>3, <1>5, <2>1, <2>3 DEF VisitedKnown
  <2> QED BY <2>2, <2>3
<1>11. DueKnown(home)'
  <2>1. DueKnown(home)
    BY DEF FolderInv
  <2> SUFFICES ASSUME NEW i \in due
               PROVE  /\ i \in Ids
                      /\ home[i] \in DOMAIN files' \ (shared \cup gone)
                      /\ files'[home[i]] # NoHeader /\ files'[home[i]].id = i
                      /\ \A t \in Starters : at'[t].pc = "register" => at'[t].file # home[i]
    BY <1>1 DEF DueKnown
  <2>2. /\ i \in Ids /\ home[i] \in DOMAIN files \ (shared \cup gone)
        /\ files[home[i]] # NoHeader /\ files[home[i]].id = i
        /\ \A t \in Starters : at'[t].pc = "register" => at'[t].file # home[i]
    BY <1>5, <2>1 DEF DueKnown
  <2>3. CASE home[i] = run.file
    <3>1. owner[home[i]] = i
      BY <2>2 DEF FolderInv, FilesKnown, Known
    <3>2. owner[home[i]] = run.new.id
      BY <1>2, <2>2, <2>3 DEF Known
    <3>3. home[i] \in DOMAIN files' /\ files'[home[i]] = run.new
      BY <1>3, <2>2, <2>3
    <3> QED BY <1>4, <2>2, <3>1, <3>2, <3>3
  <2>4. CASE home[i] # run.file
    BY <1>3, <2>2, <2>4
  <2> QED BY <2>3, <2>4
<1> QED BY <1>5, <1>6, <1>7, <1>8, <1>9, <1>10, <1>11 DEF FolderInv

-----------------------------------------------------------------------------
(* A new execution: its file is nobody's, unless it had one of this name.  *)

(* The name of a new log is the name of no file.                           *)
LEMMA NewNameIsKnown ==
    ASSUME NEW home, NEW who, NEW owner, FolderInv(home, who, owner), NEW user \in Users
    PROVE  UniqueName(LogName(nextId, user)) \in Names \ DOMAIN files
<1> DEFINE name == LogName(nextId, user)
<1>1. IsFiniteSet(DOMAIN files) /\ nextId \in Nat
  BY HistoryAssumption DEF FolderInv, HistoryTypes
<1>2. name \in [id : Nat, user : Users \cup {"any"}]
  BY <1>1 DEF LogName
<1> HIDE DEF name
<1>3. UniqueName(name) \notin DOMAIN files /\ \E n \in Nat : UniqueName(name) = <<name, n>>
  BY <1>1, NameIsFree
<1>4. UniqueName(name) \in Names
  BY <1>2, <1>3 DEF Names
<1> QED BY <1>3, <1>4 DEF name

(* An execution that is not logged only takes its id.                      *)
LEMMA StartUnloggedKeeps ==
    ASSUME NEW home, NEW who, NEW owner, FolderInv(home, who, owner), QueryInv(home, who, owner),
           nextId <= MaxIds, nextId' = nextId + 1,
           UNCHANGED <<files, visited, cache, alive, at, due, gone, shared>>
    PROVE  FolderInv(home, who, owner)' /\ QueryInv(home, who, owner)'
<1>1. HistoryTypes
  BY DEF FolderInv
<1>2. \A i, f : Known(i, f, home, owner) => Known(i, f, home, owner)'
  BY <1>1, HistoryAssumption DEF Known, HistoryTypes, Ids
<1>3. HistoryTypes'
  BY <1>1, HistoryAssumption DEF HistoryTypes
<1>4. Books(home, who, owner)'
  BY DEF FolderInv, Books
<1>5. FilesKnown(home, who, owner)'
  BY <1>2 DEF FolderInv, FilesKnown
<1>6. CacheKnown(home, owner)'
  BY <1>2 DEF FolderInv, CacheKnown
<1>7. StartsKnown(home, who, owner)'
  BY <1>2 DEF FolderInv, StartsKnown
<1>8. CodeKnown(home, who, owner)'
  BY <1>2 DEF FolderInv, CodeKnown
<1>9. FreshKnown' /\ VisitedKnown' /\ DueKnown(home)'
  BY DEF FolderInv, FreshKnown, VisitedKnown, DueKnown
<1>10. QueryInv(home, who, owner)'
  <2>1. Keeps(home, owner, home, owner)
    BY <1>2 DEF Keeps
  <2> QED BY <2>1, RequestWaits
<1> QED BY <1>3, <1>4, <1>5, <1>6, <1>7, <1>8, <1>9, <1>10 DEF FolderInv

(* Home, who and owner get the new execution.                              *)
LEMMA StartLoggedKeeps ==
    ASSUME NEW home, NEW who, NEW owner, FolderInv(home, who, owner), QueryInv(home, who, owner),
           NEW t \in Starters, NEW user \in Users, NEW f \in Names \ DOMAIN files, NEW step,
           step = [pc |-> "open", id |-> nextId, user |-> user, file |-> f],
           at[t] = Free, Goes(t, step),
           nextId <= MaxIds, nextId' = nextId + 1,
           UNCHANGED <<files, visited, cache, alive, due, gone>>,
           shared' \in {shared, shared \cup {f}},
           f \in gone \/ (\E o \in Threads : at[o].pc = "open" /\ at[o].file = f) => f \in shared'
    PROVE  HistoryInv'
<1>1. PICK home2 : home2 = [home EXCEPT ![nextId] = f]
  OBVIOUS
<1>2. PICK who2 : who2 = [who EXCEPT ![nextId] = user]
  OBVIOUS
<1>3. PICK owner2 : owner2 = [owner EXCEPT ![f] = nextId]
  OBVIOUS
<1>4. HistoryTypes /\ DOMAIN home = Ids /\ DOMAIN who = Ids /\ DOMAIN owner = Names
  BY DEF FolderInv, Books
<1>5. nextId \in Ids /\ nextId \in Nat
  BY <1>4, HistoryAssumption DEF HistoryTypes, Ids
<1>6. /\ DOMAIN home2 = Ids /\ DOMAIN who2 = Ids /\ DOMAIN owner2 = Names
      /\ home2[nextId] = f /\ who2[nextId] = user /\ owner2[f] = nextId
      /\ \A i \in Ids : i < nextId => home2[i] = home[i] /\ who2[i] = who[i]
      /\ \A g \in Names : g # f => owner2[g] = owner[g]
  BY <1>1, <1>2, <1>3, <1>4, <1>5 DEF Ids
<1>7. ASSUME NEW i, NEW g, Known(i, g, home, owner), g = f => f \in shared'
      PROVE  Known(i, g, home2, owner2)' /\ who2[i] = who[i] /\ home2[i] = home[i]
  BY <1>5, <1>6, <1>7 DEF Known, Ids
<1>8. \A g \in DOMAIN files \cup gone : g = f => f \in shared'
  OBVIOUS
<1>9. /\ DOMAIN at' = Threads /\ at'[t] = step
      /\ \A u \in Threads \ {t} : at'[u] = at[u]
  BY Went, <1>4 DEF HistoryTypes, Starters, Threads
<1>10. /\ at'["finisher"] = at["finisher"] /\ t \in Threads
       /\ \A u \in Starters \ {t} : at'[u] = at[u]
       /\ at[t].pc = "free" /\ step.pc = "open" /\ step.pc \in Starting
       /\ step.id = nextId /\ step.user = user /\ step.file = f
  BY <1>9 DEF Starters, Threads, Free, Starting
<1>11. HistoryTypes'
  <2>1. /\ at'["scheduler"].pc \in Starting \cup {"free"}
        /\ at'["io"].pc \in Starting \cup {"free", "obsolete", "scan", "list", "find", "log", "answer"}
    BY <1>4, <1>9, <1>10 DEF HistoryTypes, Threads
  <2>2. nextId' \in 1..MaxIds + 1
    BY <1>5, HistoryAssumption DEF Ids
  <2> QED BY <1>4, <1>9, <1>10, <2>1, <2>2 DEF HistoryTypes
<1>12. Books(home2, who2, owner2)'
  BY <1>6 DEF Books
<1>13. FilesKnown(home2, who2, owner2)'
  <2>1. FilesKnown(home, who, owner)
    BY DEF FolderInv
  <2> SUFFICES ASSUME NEW g \in DOMAIN files, files[g] # NoHeader
               PROVE  /\ Known(files[g].id, g, home2, owner2)'
                      /\ who2[files[g].id] = files[g].user
                      /\ g \notin shared' => files[g].code \in {0, files[g].id}
    BY DEF FilesKnown, Known
  <2>2. /\ Known(files[g].id, g, home, owner) /\ who[files[g].id] = files[g].user
        /\ g \notin shared => files[g].code \in {0, files[g].id}
    BY <2>1 DEF FilesKnown
  <2>3. g # f /\ (g \notin shared' => g \notin shared)
    OBVIOUS
  <2> QED BY <1>7, <2>2, <2>3
<1>14. CacheKnown(home2, owner2)'
  <2>1. CacheKnown(home, owner)
    BY DEF FolderInv
  <2>2. \A i \in DOMAIN cache : Known(i, cache[i], home2, owner2)' /\ cache[i] \in DOMAIN files \cup gone
    BY <1>7, <1>8, <2>1 DEF CacheKnown
  <2> QED BY <2>2 DEF CacheKnown, Known
<1>15. StartsKnown(home2, who2, owner2)'
  <2>1. StartsKnown(home, who, owner)
    BY DEF FolderInv
  <2>2. ASSUME NEW u \in Starters, at'[u].pc \in Starting
        PROVE  /\ at'[u] = [pc |-> at'[u].pc, id |-> at'[u].id, user |-> at'[u].user, file |-> at'[u].file]
               /\ at'[u].user \in Users
               /\ \E i, g : /\ i = at'[u].id /\ g = at'[u].file
                            /\ Known(i, g, home2, owner2)'
                            /\ who2[i] = at'[u].user
               /\ at'[u].pc # "open" => at'[u].file \in DOMAIN files \cup gone
    <3>1. CASE u = t
      <4>1. PICK i : i = nextId
        OBVIOUS
      <4>2. Known(i, f, home2, owner2)'
        BY <1>5, <1>6, <4>1 DEF Known
      <4>3. at'[u] = [pc |-> "open", id |-> i, user |-> user, file |-> f]
        BY <1>9, <3>1, <4>1
      <4>4. who2[i] = user
        BY <1>6, <4>1
      <4> QED BY <4>2, <4>3, <4>4
    <3>2. CASE u # t
      <4>1. at'[u] = at[u] /\ u \in Threads
        BY <1>10, <3>2 DEF Starters, Threads
      <4>2. /\ at[u] = [pc |-> at[u].pc, id |-> at[u].id, user |-> at[u].user, file |-> at[u].file]
            /\ at[u].user \in Users
            /\ Known(at[u].id, at[u].file, home, owner)
            /\ who[at[u].id] = at[u].user
            /\ at[u].pc # "open" => at[u].file \in DOMAIN files \cup gone
        BY <2>1, <2>2, <4>1 DEF StartsKnown
      <4>3. at[u].file = f => f \in shared'
        BY <1>8, <4>1, <4>2
      <4>4. PICK i, g : i = at[u].id /\ g = at[u].file
        OBVIOUS
      <4>5. Known(i, g, home2, owner2)' /\ who2[i] = who[i]
        BY <1>7, <4>2, <4>3, <4>4
      <4> QED BY <4>1, <4>2, <4>4, <4>5
    <3> QED BY <3>1, <3>2
  <2> QED BY <2>2 DEF StartsKnown, Known
<1>16. CodeKnown(home2, who2, owner2)'
  <2>1. CodeKnown(home, who, owner)
    BY DEF FolderInv
  <2> SUFFICES ASSUME at["finisher"].pc \in {"truncate", "write"}
               PROVE  CodeKnown(home2, who2, owner2)'
    BY <1>10 DEF CodeKnown
  <2>2. PICK run : run = at["finisher"]
    OBVIOUS
  <2>3. /\ run = [pc |-> run.pc, file |-> run.file, new |-> run.new]
        /\ run.new \in Content
        /\ Known(run.new.id, run.file, home, owner)
        /\ who[run.new.id] = run.new.user
        /\ run.file \notin shared => run.new.code = run.new.id
        /\ run.file \in DOMAIN files \cup gone
        /\ run.file \in DOMAIN files \ (shared \cup gone) => run.new.id \in DOMAIN cache
    BY <2>1, <2>2 DEF CodeKnown
  <2>4. Known(run.new.id, run.file, home2, owner2)' /\ who2[run.new.id] = who[run.new.id]
    BY <1>7, <1>8, <2>3
  <2>5. run.file \notin shared' => run.file \notin shared
    OBVIOUS
  <2> QED BY <1>10, <2>2, <2>3, <2>4, <2>5 DEF CodeKnown, Known
<1>17. FreshKnown'
  <2>1. FreshKnown /\ FilesKnown(home, who, owner) /\ StartsKnown(home, who, owner) /\ CodeKnown(home, who, owner)
    BY DEF FolderInv
  <2>2. \A g \in DOMAIN files : files[g] # NoHeader => files[g].id # nextId
    BY <1>5, <2>1 DEF FilesKnown, Known
  <2>3. at["finisher"].pc \in {"truncate", "write"} => at["finisher"].new.id # nextId
    BY <1>5, <2>1 DEF CodeKnown, Known
  <2>4. ASSUME NEW u \in Starters, at[u].pc \in Starting
        PROVE  at[u].id # nextId
    <3>1. Known(at[u].id, at[u].file, home, owner)
      BY <2>1, <2>4 DEF StartsKnown
    <3>2. at[u].id \in Ids /\ at[u].id < nextId
      BY <3>1 DEF Known
    <3> QED BY <1>5, <3>2 DEF Ids
  <2> SUFFICES ASSUME NEW u \in Starters, at'[u].pc \in {"open", "header"}
               PROVE  /\ \A g \in DOMAIN files : files[g] # NoHeader => files[g].id # at'[u].id
                      /\ at["finisher"].pc \in {"truncate", "write"} => at["finisher"].new.id # at'[u].id
                      /\ \A v \in Starters \ {u} : at'[v].pc \in Starting => at'[v].id # at'[u].id
    BY <1>10 DEF FreshKnown
  <2>5. CASE u = t
    BY <1>9, <1>10, <2>2, <2>3, <2>4, <2>5
  <2>6. CASE u # t
    <3>1. at'[u] = at[u] /\ at[u].pc \in {"open", "header"} /\ at[u].pc \in Starting
      BY <1>10, <2>6 DEF Starting
    <3>2. ASSUME NEW v \in Starters \ {u}, at'[v].pc \in Starting
          PROVE  at'[v].id # at[u].id
      <4>1. CASE v = t
        BY <1>9, <1>10, <2>4, <3>1, <4>1
      <4>2. CASE v # t
        BY <1>10, <2>1, <3>1, <3>2, <4>2 DEF FreshKnown
      <4> QED BY <4>1, <4>2
    <3> QED BY <2>1, <3>1, <3>2 DEF FreshKnown
  <2> QED BY <2>5, <2>6
<1>18. \A u \in Starters : /\ at[u].pc = "register" => at'[u] = at[u]
                           /\ at'[u].pc = "register" => at'[u] = at[u]
  BY <1>9, <1>10
<1>19. VisitedKnown'
  <2>1. VisitedKnown
    BY DEF FolderInv
  <2>2. (visited \cap DOMAIN files) \ (shared' \cup gone) \subseteq (visited \cap DOMAIN files) \ (shared \cup gone)
    OBVIOUS
  <2> QED BY <1>18, <2>1, <2>2 DEF VisitedKnown
<1>20. DueKnown(home2)'
  <2>1. DueKnown(home) /\ FilesKnown(home, who, owner)
    BY DEF FolderInv
  <2>2. ASSUME NEW i \in due
        PROVE  /\ i \in Ids /\ home2[i] \in DOMAIN files \ (shared' \cup gone)
               /\ files[home2[i]] # NoHeader /\ files[home2[i]].id = i
               /\ \A u \in Starters : at[u].pc = "register" => at[u].file # home2[i]
    <3>1. /\ i \in Ids /\ home[i] \in DOMAIN files \ (shared \cup gone)
          /\ files[home[i]] # NoHeader /\ files[home[i]].id = i
          /\ \A u \in Starters : at[u].pc = "register" => at[u].file # home[i]
      BY <2>1 DEF DueKnown
    <3>2. i < nextId
      BY <2>1, <3>1 DEF FilesKnown, Known
    <3>3. home2[i] = home[i] /\ home[i] # f
      BY <1>6, <3>1, <3>2
    <3> QED BY <3>1, <3>3
  <2> QED BY <1>18, <2>2 DEF DueKnown
<1>21. QueryInv(home2, who2, owner2)'
  <2>1. Keeps(home, owner, home2, owner2)
    BY <1>7, <1>8 DEF Keeps
  <2>2. step.pc \in Starting \cup {"free"}
    BY <1>10
  <2> QED BY <1>6, <2>1, <2>2, StarterKeepsRequest
<1>22. FolderInv(home2, who2, owner2)'
  BY <1>11, <1>12, <1>13, <1>14, <1>15, <1>16, <1>17, <1>19, <1>20 DEF FolderInv
<1> QED BY <1>21, <1>22 DEF HistoryInv

(* A start keeps the invariant, logged or not.                             *)
LEMMA StartExecutionKeeps ==
    ASSUME NEW home, NEW who, NEW owner, FolderInv(home, who, owner), QueryInv(home, who, owner),
           NEW t \in Starters, NEW user \in Users, NEW logged \in BOOLEAN,
           StartExecution(t, user, logged)
    PROVE  HistoryInv'
<1>1. /\ nextId <= MaxIds /\ nextId' = nextId + 1 /\ at[t] = Free
      /\ UNCHANGED <<files, visited, cache, alive, due, gone>>
  BY DEF StartExecution
<1>2. CASE ~logged
  <2>1. UNCHANGED <<at, shared>>
    BY <1>2 DEF StartExecution
  <2>2. FolderInv(home, who, owner)' /\ QueryInv(home, who, owner)'
    BY <1>1, <2>1, StartUnloggedKeeps
  <2> QED BY <2>2 DEF HistoryInv
<1>3. CASE logged
  <2>1. PICK f : f = UniqueName(LogName(nextId, user))
    OBVIOUS
  <2>2. PICK step : step = [pc |-> "open", id |-> nextId, user |-> user, file |-> f]
    OBVIOUS
  <2>3. f \in Names \ DOMAIN files
    BY <2>1, NewNameIsKnown
  <2>4. Goes(t, step)
    BY <1>3, <2>1, <2>2 DEF StartExecution
  <2>5. /\ shared' \in {shared, shared \cup {f}}
        /\ f \in gone \/ (\E o \in Threads : at[o].pc = "open" /\ at[o].file = f) => f \in shared'
    BY <1>3, <2>1 DEF StartExecution
  <2> QED BY <1>1, <2>2, <2>3, <2>4, <2>5, StartLoggedKeeps
<1> QED BY <1>2, <1>3

-----------------------------------------------------------------------------
(* From outside. *)

(* A log that is deleted is not due any more.                              *)
LEMMA DeleteLogKeeps ==
    ASSUME NEW home, NEW who, NEW owner, FolderInv(home, who, owner), QueryInv(home, who, owner),
           NEW f \in DOMAIN files, DeleteLog(f)
    PROVE  FolderInv(home, who, owner)' /\ QueryInv(home, who, owner)'
<1>1. /\ files' = Restrict(files, DOMAIN files \ {f})
      /\ due' = due \ {files[f].id} /\ gone' = gone \cup {f}
      /\ UNCHANGED <<visited, cache, nextId, alive, at, shared>>
  BY DEF DeleteLog
<1>2. /\ DOMAIN files' = DOMAIN files \ {f}
      /\ \A g \in DOMAIN files \ {f} : files'[g] = files[g]
  BY <1>1 DEF Restrict
<1>3. DOMAIN files' \cup gone' = DOMAIN files \cup gone
  BY <1>1, <1>2
<1>4. HistoryTypes' /\ Books(home, who, owner)'
  <2>1. HistoryTypes /\ Books(home, who, owner)
    BY DEF FolderInv
  <2>2. IsFiniteSet(DOMAIN files') /\ DOMAIN files' \subseteq Names
    BY <1>2, <2>1, FS_Subset DEF HistoryTypes
  <2>3. Books(home, who, owner)'
    BY <2>1 DEF Books
  <2> QED BY <1>1, <1>2, <2>1, <2>2, <2>3 DEF HistoryTypes
<1>5. FilesKnown(home, who, owner)'
  <2>1. FilesKnown(home, who, owner)
    BY DEF FolderInv
  <2> SUFFICES ASSUME NEW g \in DOMAIN files', files'[g] # NoHeader
               PROVE  /\ Known(files'[g].id, g, home, owner)
                      /\ who[files'[g].id] = files'[g].user
                      /\ g \notin shared => files'[g].code \in {0, files'[g].id}
    BY <1>1 DEF FilesKnown, Known
  <2>2. g \in DOMAIN files /\ files'[g] = files[g]
    BY <1>2
  <2> QED BY <2>1, <2>2 DEF FilesKnown
<1>6. CacheKnown(home, owner)' /\ StartsKnown(home, who, owner)'
  BY <1>1, <1>3 DEF FolderInv, CacheKnown, StartsKnown, Known
<1>7. CodeKnown(home, who, owner)'
  <2>1. DOMAIN files' \ (shared \cup gone') \subseteq DOMAIN files \ (shared \cup gone)
    BY <1>1, <1>2
  <2> QED BY <1>1, <1>3, <2>1 DEF FolderInv, CodeKnown, Known
<1>8. FreshKnown'
  BY <1>1, <1>2 DEF FolderInv, FreshKnown
<1>9. VisitedKnown'
  BY <1>1, <1>2 DEF FolderInv, VisitedKnown
<1>10. DueKnown(home)'
  BY <1>1, <1>2 DEF FolderInv, DueKnown
<1>11. QueryInv(home, who, owner)'
  <2>1. Keeps(home, owner, home, owner)
    BY <1>1, KeepsItself
  <2> QED BY <1>1, <1>3, <2>1, RequestWaits
<1> QED BY <1>4, <1>5, <1>6, <1>7, <1>8, <1>9, <1>10, <1>11 DEF FolderInv

(* The ids go on after those of the logs that can be read.                 *)
LEMMA IdsGoOn ==
    ASSUME NEW home, NEW who, NEW owner, FolderInv(home, who, owner)
    PROVE  /\ IdsFromHistory \in 1..MaxIds + 1
           /\ \A f \in DOMAIN files : files[f] # NoHeader => files[f].id < IdsFromHistory
<1> DEFINE S == {0} \cup {files[f].id : f \in Readables}
           Back == {k \in 0..MaxIds : MaxIds - k \in S}
<1>1. S \subseteq 0..MaxIds
  <2>1. \A f \in Readables : files[f].id \in Ids
    BY DEF FolderInv, FilesKnown, Known, Readables, Readable
  <2> QED BY <2>1, HistoryAssumption DEF Ids
<1>2. \A f \in DOMAIN files : files[f] # NoHeader => files[f].id \in S
  BY DEF Readables, Readable
<1>3. 0 \in S /\ IdsFromHistory = Max(S) + 1
  BY DEF IdsFromHistory
<1> HIDE DEF S
<1>4. Back \in SUBSET Nat /\ Back # {}
  <2>1. MaxIds \in Back
    BY <1>3, HistoryAssumption
  <2> QED BY <2>1, HistoryAssumption
<1>5. PICK m \in Back : \A k \in Back : m <= k
  BY <1>4, LeastNumber
<1>6. MaxIds - m \in S /\ m \in 0..MaxIds
  BY <1>5
<1>7. \A x \in S : MaxIds - m >= x
  <2> SUFFICES ASSUME NEW x \in S
               PROVE  MaxIds - m >= x
    OBVIOUS
  <2>1. x \in 0..MaxIds
    BY <1>1
  <2>2. MaxIds - (MaxIds - x) = x /\ MaxIds - x \in 0..MaxIds
    BY <2>1, HistoryAssumption
  <2>3. MaxIds - x \in Back
    BY <2>2
  <2>4. m <= MaxIds - x
    BY <1>5, <2>3
  <2> QED BY <1>6, <2>1, <2>4, HistoryAssumption
<1> HIDE DEF Back
<1>8. \E x \in S : \A y \in S : x >= y
  BY <1>6, <1>7
<1>9. Max(S) \in S /\ \A y \in S : Max(S) >= y
  BY <1>8 DEF Max
<1>10. Max(S) \in 0..MaxIds
  BY <1>1, <1>9
<1> HIDE DEF IdsFromHistory
<1>11. \A y \in S : y \in Int /\ y < Max(S) + 1
  BY <1>1, <1>9, <1>10
<1> QED BY <1>2, <1>3, <1>10, <1>11, HistoryAssumption

(* The next server knows the files that can be read, and counts on from    *)
(* them.                                                                   *)
LEMMA RestartKeeps ==
    ASSUME NEW home, NEW who, NEW owner, FolderInv(home, who, owner), QueryInv(home, who, owner),
           Restart
    PROVE  FolderInv(home, who, owner)' /\ QueryInv(home, who, owner)'
<1>1. /\ visited' = DOMAIN files /\ cache' = FoundFiles /\ nextId' = IdsFromHistory
      /\ alive' = {} /\ due' = {} /\ gone' = {}
      /\ UNCHANGED <<files, shared>>
  BY DEF Restart
<1>2. /\ DOMAIN at' = Threads
      /\ \A t \in Threads : at'[t].pc = "free"
  BY DEF Restart, Free
<1>3. /\ nextId' \in 1..MaxIds + 1
      /\ \A f \in DOMAIN files : files[f] # NoHeader => files[f].id < nextId'
  BY <1>1, IdsGoOn
<1>4. HistoryTypes' /\ Books(home, who, owner)'
  <2>1. HistoryTypes /\ Books(home, who, owner)
    BY DEF FolderInv
  <2>2. Books(home, who, owner)'
    BY <2>1 DEF Books
  <2> QED BY <1>1, <1>2, <1>3, <2>1, <2>2 DEF HistoryTypes, Threads
<1>5. FilesKnown(home, who, owner)'
  BY <1>1, <1>3 DEF FolderInv, FilesKnown, Known
<1>6. CacheKnown(home, owner)'
  <2> SUFFICES ASSUME NEW i \in DOMAIN FoundFiles
               PROVE  /\ Known(i, FoundFiles[i], home, owner)
                      /\ i < nextId'
                      /\ FoundFiles[i] \in DOMAIN files
    BY <1>1 DEF CacheKnown, Known
  <2>1. \E f \in Readables : files[f].id = i
    BY DEF FoundFiles
  <2>2. FoundFiles[i] = CHOOSE f \in Readables : files[f].id = i
    BY DEF FoundFiles
  <2>3. PICK g : g = FoundFiles[i]
    OBVIOUS
  <2>4. g \in Readables /\ files[g].id = i
    BY <2>1, <2>2, <2>3
  <2>5. g \in DOMAIN files /\ files[g] # NoHeader
    BY <2>4 DEF Readables, Readable
  <2>6. Known(i, g, home, owner)
    BY <2>4, <2>5 DEF FolderInv, FilesKnown
  <2> QED BY <1>3, <2>3, <2>4, <2>5, <2>6
<1>7. StartsKnown(home, who, owner)' /\ CodeKnown(home, who, owner)' /\ FreshKnown'
  BY <1>2 DEF StartsKnown, CodeKnown, FreshKnown, Threads, Starters, Starting
<1>8. VisitedKnown' /\ DueKnown(home)'
  <2>1. \A f \in DOMAIN files : files[f] # NoHeader => files[f].id \in DOMAIN FoundFiles
    BY DEF FoundFiles, Readables, Readable
  <2> QED BY <1>1, <2>1 DEF VisitedKnown, DueKnown
<1>9. QueryInv(home, who, owner)'
  <2>1. at'["io"].pc = "free"
    BY <1>2 DEF Threads
  <2> QED BY <2>1, NoRequest
<1> QED BY <1>4, <1>5, <1>6, <1>7, <1>8, <1>9 DEF FolderInv

(* Where nothing changes the invariant stays.                              *)
LEMMA IdleKeeps ==
    ASSUME NEW home, NEW who, NEW owner, FolderInv(home, who, owner), QueryInv(home, who, owner),
           UNCHANGED historyVars
    PROVE  FolderInv(home, who, owner)' /\ QueryInv(home, who, owner)'
<1> USE DEF historyVars
<1>1. Books(home, who, owner)' /\ HistoryTypes'
  BY DEF FolderInv, Books, HistoryTypes
<1>2. FilesKnown(home, who, owner)' /\ CacheKnown(home, owner)'
  BY DEF FolderInv, FilesKnown, CacheKnown, Known
<1>3. StartsKnown(home, who, owner)' /\ CodeKnown(home, who, owner)' /\ FreshKnown'
  BY DEF FolderInv, StartsKnown, CodeKnown, FreshKnown, Known
<1>4. VisitedKnown' /\ DueKnown(home)'
  BY DEF FolderInv, VisitedKnown, DueKnown, Known, Found
<1>5. RequestShape' /\ ListKnown(home, who)' /\ EntryKnown(home, who, owner)'
  BY DEF QueryInv, RequestShape, ListKnown, EntryKnown, Asks, Querying, Found, Known
<1> QED BY <1>1, <1>2, <1>3, <1>4, <1>5 DEF FolderInv, QueryInv

(* Every step keeps the invariant.                                         *)
LEMMA HistoryStep == HistoryInv /\ [HistoryNext]_historyVars => HistoryInv'
<1> SUFFICES ASSUME HistoryInv, [HistoryNext]_historyVars
             PROVE  HistoryInv'
  OBVIOUS
<1>1. PICK home, who, owner : FolderInv(home, who, owner) /\ QueryInv(home, who, owner)
  BY DEF HistoryInv
<1> SUFFICES ASSUME ~(FolderInv(home, who, owner)' /\ QueryInv(home, who, owner)')
             PROVE  HistoryInv'
  BY DEF HistoryInv
<1>2. CASE \E t \in {"io", "scheduler"} : StartStep(t)
  BY <1>1, <1>2, OpenLogFileKeeps, WriteHeaderKeeps, RegisterLogKeeps DEF StartStep, Starters
<1>3. CASE \E t \in {"io", "scheduler"} : \E user \in Users, logged \in BOOLEAN :
               StartExecution(t, user, logged)
  BY <1>1, <1>3, StartExecutionKeeps DEF Starters
<1>4. CASE \E id \in alive : ReadToRewrite(id)
  BY <1>1, <1>4, ReadToRewriteKeeps
<1>5. CASE TruncateLog \/ RewriteLog
  BY <1>1, <1>5, TruncateLogKeeps, RewriteLogKeeps
<1>6. CASE \E user \in Users : AskForList(user) \/ \E id \in 1..MaxIds : AskForLog(user, id)
  <2>1. CASE \E user \in Users : AskForList(user)
    BY <1>1, <2>1, AskForListKeeps
  <2>2. CASE \E user \in Users : \E id \in 1..MaxIds : AskForLog(user, id)
    BY <1>1, <2>2, AskForLogKeeps DEF Ids
  <2> QED BY <1>6, <2>1, <2>2
<1>7. CASE RequestStep
  BY <1>1, <1>7, RequestKeeps
<1>8. CASE \E f \in DOMAIN files : DeleteLog(f)
  BY <1>1, <1>8, DeleteLogKeeps
<1>9. CASE Restart
  BY <1>1, <1>9, RestartKeeps
<1>10. CASE UNCHANGED historyVars
  BY <1>1, <1>10, IdleKeeps
<1> QED
  BY <1>2, <1>3, <1>4, <1>5, <1>6, <1>7, <1>8, <1>9, <1>10 DEF HistoryNext

(* The properties follow from the invariant.                               *)
LEMMA HistoryInvSuffices == HistoryInv => LogsAreTheirs /\ NothingMissing
<1> SUFFICES ASSUME HistoryInv
             PROVE  LogsAreTheirs /\ NothingMissing
  OBVIOUS
<1>1. PICK home, who, owner : FolderInv(home, who, owner) /\ QueryInv(home, who, owner)
  BY DEF HistoryInv
<1>2. /\ FilesKnown(home, who, owner) /\ RequestShape
      /\ ListKnown(home, who) /\ EntryKnown(home, who, owner)
  BY <1>1 DEF FolderInv, QueryInv
<1>3. IdsUnique
  BY <1>2 DEF IdsUnique, FilesKnown, Known, Readables, Readable
<1>4. CodesAreTheirs
  BY <1>2 DEF CodesAreTheirs, FilesKnown, Readables, Readable
<1>5. at["io"].pc = "list" => Asks("list")
  BY <1>2 DEF RequestShape, Asks, Querying
<1>6. AnswersAreTheirs
  <2> DEFINE run == at["io"]
  <2>1. run.pc = "list" => \A e \in run.entries : CanAccess(run.user, e)
    BY <1>2, <1>5 DEF ListKnown, CanAccess, MaySee
  <2>2. ASSUME run.pc = "answer"
        PROVE  /\ Found(run.entry, run.id, home, who, owner) /\ MaySee(run.user, run.entry.user)
               /\ run.log = NoHeader \/ Found(run.log, run.id, home, who, owner)
    BY <1>2, <2>2 DEF EntryKnown
  <2> HIDE DEF run
  <2>3. ASSUME run.pc = "answer", NEW part \in {run.entry, run.log} \ {NoHeader},
               part.file \notin shared
        PROVE  part.id = run.id /\ CanAccess(run.user, part)
    <3>1. Found(part, run.id, home, who, owner) /\ Found(run.entry, run.id, home, who, owner)
      BY <2>2, <2>3
    <3>2. part.file = run.entry.file /\ part.id = run.id /\ run.entry.id = run.id
      BY <2>3, <3>1 DEF Found, Known
    <3>3. part.user = run.entry.user
      BY <3>1, <3>2 DEF Found
    <3> QED BY <2>2, <2>3, <3>2, <3>3 DEF CanAccess, MaySee
  <2> QED BY <2>1, <2>3 DEF AnswersAreTheirs, run
<1>7. NothingMissing
  <2> SUFFICES ASSUME at["io"].pc = "list", at["io"].todo = {}
               PROVE  \A i \in due : i \in {e.id : e \in at["io"].entries}
    BY DEF NothingMissing
  <2>1. \A i \in due : \E e \in at["io"].entries : e.id = i
    BY <1>2, <1>5 DEF ListKnown
  <2> QED BY <2>1
<1> QED BY <1>3, <1>4, <1>6, <1>7 DEF LogsAreTheirs

(* Over restarts, crashes at any step and deletions, an id leads to the    *)
(* log of its execution: no two logs have one id, who asks is shown what   *)
(* is theirs, and an exit code gets into its own log.                      *)
THEOREM LogsStayTheirs == HistorySpec => []LogsAreTheirs
<1>1. HistoryInv => LogsAreTheirs
  BY HistoryInvSuffices
<1> QED BY <1>1, HistoryStart, HistoryStep, PTL DEF HistorySpec

(* A list has all that it must, whatever the other threads were at.        *)
THEOREM ListsMissNothing == HistorySpec => []NothingMissing
<1>1. HistoryInv => NothingMissing
  BY HistoryInvSuffices
<1> QED BY <1>1, HistoryStart, HistoryStep, PTL DEF HistorySpec
===============================================================================

---------------------------- MODULE SkynetHandle ----------------------------
(***************************************************************************)
(* The handle storage of skynet-src/skynet_handle.c: a hash table of       *)
(* contexts that doubles when it is full, the table of local names, and    *)
(* skynet_handle_retireall, which abort uses.                              *)
(*                                                                         *)
(* Every operation runs under the storage's read-write lock, except two:   *)
(* skynet_context_new writes ctx->handle after skynet_handle_register has  *)
(* released the lock, and retireall reads a slot, unlocks, and retires     *)
(* what it read.  The harbor bits are 0, as in the configuration.          *)
(***************************************************************************)
EXTENDS Integers, Sequences, FiniteSets

CONSTANTS
    Launcher,           \* threads that run skynet_context_new
    Ctx,                \* addresses of contexts; a freed one is used again
    None,               \* NULL
    HANDLE_MASK,
    DEFAULT_SLOT_SIZE,
    Name                \* local names: an interval, ordered as by strcmp

ASSUME HandleAssumption ==
    /\ None \notin Ctx
    /\ HANDLE_MASK \in Nat /\ DEFAULT_SLOT_SIZE \in Nat \ {0}
    \* HANDLE_MASK + 1 is a power of two, and a multiple of the initial size
    /\ (HANDLE_MASK + 1) % DEFAULT_SLOT_SIZE = 0
    /\ \A d \in 2..HANDLE_MASK + 1 : (HANDLE_MASK + 1) % d = 0 => d % 2 = 0
    /\ Name \subseteq Nat

VARIABLES
    slot,           \* H->slot, an array of slot_size contexts
    slot_size,
    handle_index,
    handle,         \* handle[c]: ctx->handle, 0 until it is assigned
    name,           \* H->name, sorted, and `by', the service named then
    new,            \* new[l]: the context l is creating
    got,            \* got[l]: what skynet_handle_register returned to l
    apc, ai, an, ah,\* skynet_handle_retireall: position, i, whether n > 0, handle
    target          \* the contexts it still has to retire

table == <<slot, slot_size, handle_index>>
abortVars == <<apc, ai, an, ah>>
handlevars == <<table, handle, name, new, got, abortVars, target>>

Handle == 0..HANDLE_MASK

Init ==
    /\ slot_size = DEFAULT_SLOT_SIZE
    /\ slot = [i \in 0..slot_size - 1 |-> None]
    /\ handle_index = 1
    /\ handle = [c \in Ctx |-> 0]
    /\ name = <<>>
    /\ new = [l \in Launcher |-> None]
    /\ got = [l \in Launcher |-> 0]
    /\ apc = "idle" /\ ai = 0 /\ an = FALSE /\ ah = 0
    /\ target = {}

-----------------------------------------------------------------------------
(* skynet_handle_register and the assignment of its result                 *)

Registered == {slot[i] : i \in 0..slot_size - 1} \ {None}

\* the address of a new context: malloc returns memory that is not in use
Unused == Ctx \ (Registered \cup {new[l] : l \in Launcher})

Full == \A i \in 0..slot_size - 1 : slot[i] # None

\* assert(new_slot[hash] == NULL): no two contexts get the same new slot
Rehashable ==
    \A i, j \in 0..slot_size - 1 :
       i # j => handle[slot[i]] % (2 * slot_size) # handle[slot[j]] % (2 * slot_size)

\* mutant: the contexts keep their index in the larger table
ExpandedCopy == [h \in 0..2 * slot_size - 1 |-> IF h < slot_size THEN slot[h] ELSE None]

\* the full table, rehashed into one twice as large
Expanded ==
    [h \in 0..2 * slot_size - 1 |->
       IF \E i \in 0..slot_size - 1 : handle[slot[i]] % (2 * slot_size) = h
         THEN slot[CHOOSE i \in 0..slot_size - 1 : handle[slot[i]] % (2 * slot_size) = h]
         ELSE None]

\* the i-th handle that is tried
Candidate(i) == (i + handle_index) % (HANDLE_MASK + 1)

\* the first free slot of table s, of size n, for the handles from handle_index
Free(s, n) ==
    CHOOSE i \in 0..n - 1 : /\ s[Candidate(i) % n] = None
                            /\ \A j \in 0..i - 1 : s[Candidate(j) % n] # None

\* skynet_handle_register(c), up to its return.  A failed assertion ends the
\* process: no behaviour goes on from there.
Register(l, c) ==
    LET s == IF Full THEN Expanded ELSE slot
        n == IF Full THEN 2 * slot_size ELSE slot_size
        h == Candidate(Free(s, n))
    IN
    /\ new[l] = None
    /\ c \in Unused
    /\ Full => Rehashable /\ 2 * slot_size - 1 <= HANDLE_MASK
    /\ slot' = [s EXCEPT ![h % n] = c]
    /\ slot_size' = n
    /\ handle_index' = h + 1
    /\ handle' = [handle EXCEPT ![c] = 0]
    /\ new' = [new EXCEPT ![l] = c]
    /\ got' = [got EXCEPT ![l] = h]
    /\ UNCHANGED <<name, abortVars, target>>

\* ctx->handle = skynet_handle_register(ctx), without the lock
AssignHandle(l) ==
    /\ new[l] # None
    /\ handle' = [handle EXCEPT ![new[l]] = got[l]]
    /\ new' = [new EXCEPT ![l] = None]
    /\ got' = [got EXCEPT ![l] = 0]
    /\ UNCHANGED <<table, name, abortVars, target>>

-----------------------------------------------------------------------------
(* skynet_handle_grab and skynet_handle_retire                             *)

\* the context skynet_handle_grab(h) and skynet_handle_retire(h) find
Lookup(h) ==
    LET c == slot[h % slot_size]
    IN  IF c # None /\ handle[c] = h THEN c ELSE None

\* the names q without those of h, in one pass: kept[i] is what it has left of
\* the first i
Without(q, h) ==
    LET kept[i \in 0..Len(q)] ==
          IF i = 0 THEN <<>>
          ELSE IF q[i].handle = h THEN kept[i - 1] ELSE Append(kept[i - 1], q[i])
    IN  kept

\* mutant: the names of the handle are kept
RetireKeepNames(h) ==
    /\ slot' = [slot EXCEPT ![h % slot_size] = None]
    /\ name' = name
    /\ target' = target \ {Lookup(h)}

\* what skynet_handle_retire changes when it finds h
RetireFound(h) ==
    /\ slot' = [slot EXCEPT ![h % slot_size] = None]
    /\ name' = Without(name, h)[Len(name)]
    /\ target' = target \ {Lookup(h)}

\* cmd_exit, cmd_kill or a failed launch retires h.  cmd_kill ignores handle
\* 0, and a context that is being created does not exit yet.
Retire(h) ==
    /\ Lookup(h) \notin {None} \cup {new[l] : l \in Launcher}
    /\ RetireFound(h)
    /\ UNCHANGED <<slot_size, handle_index, handle, new, got, abortVars>>

-----------------------------------------------------------------------------
(* Names                                                                   *)

\* the binary search of skynet_handle_findname and _insert_name in the range
\* from begin to end, for all of them: the index of n, or the place where it
\* belongs (begin)
Searches(n) ==
    LET s[r \in (0..Len(name)) \X (-1..Len(name) - 1)] ==
          IF r[1] > r[2] THEN [found |-> FALSE, at |-> r[1]]
          ELSE LET mid == (r[1] + r[2]) \div 2
                   k == name[mid + 1].name
               IN  CASE k = n -> [found |-> TRUE, at |-> mid]
                     [] k < n -> s[<<mid + 1, r[2]>>]
                     [] OTHER -> s[<<r[1], mid - 1>>]
    IN  s

Search(n) == Searches(n)[<<0, Len(name) - 1>>]

\* skynet_handle_findname
FindName(n) == IF Search(n).found THEN name[Search(n).at + 1].handle ELSE 0

\* skynet_handle_namehandle(h, n), called by cmd_reg and cmd_name: a name
\* that is taken stays, and h need not be registered any more
NameHandle(h, n) ==
    LET at == Search(n).at IN
    /\ ~Search(n).found
    /\ name' = SubSeq(name, 1, at) \o <<[name |-> n, handle |-> h, by |-> Lookup(h)]>>
                 \o SubSeq(name, at + 1, Len(name))
    /\ UNCHANGED <<table, handle, new, got, abortVars, target>>

-----------------------------------------------------------------------------
(* skynet_handle_retireall                                                 *)

\* mutant: the walk starts at slot 1, as handles do
AbortStartAtOne ==
    /\ apc = "idle"
    /\ apc' = "scan"
    /\ an' = FALSE
    /\ ai' = 1
    /\ target' = {c \in Registered : handle[c] # 0}
    /\ UNCHANGED <<table, handle, name, new, got, ah>>

\* skynet_handle_retireall is called, once
AbortStart ==
    /\ apc = "idle"
    /\ apc' = "scan"
    /\ an' = FALSE
    /\ ai' = 0
    /\ target' = {c \in Registered : handle[c] # 0}
    /\ UNCHANGED <<table, handle, name, new, got, ah>>

\* read slot i under the read lock: a context whose handle is 0 is skipped
AbortRead ==
    LET c == slot[ai]
        h == IF c = None THEN 0 ELSE handle[c]
    IN
    /\ apc = "scan"
    /\ ai < slot_size
    /\ ai' = ai + 1
    /\ ah' = h
    /\ apc' = IF h # 0 THEN "retire" ELSE "scan"
    /\ UNCHANGED <<table, handle, name, new, got, an, target>>

\* skynet_handle_retire of the handle read, found or not
AbortRetire ==
    /\ apc = "retire"
    /\ apc' = "scan"
    /\ ah' = 0
    /\ \/ /\ Lookup(ah) # None
          /\ RetireFound(ah)
          /\ an' = TRUE
       \/ /\ Lookup(ah) = None
          /\ UNCHANGED <<slot, name, target, an>>
    /\ UNCHANGED <<slot_size, handle_index, handle, new, got, ai>>

\* the end of a pass: return if it retired nothing
AbortPassEnd ==
    /\ apc = "scan"
    /\ ai >= slot_size
    /\ apc' = IF an THEN "scan" ELSE "done"
    /\ ai' = 0
    /\ an' = FALSE
    /\ UNCHANGED <<table, handle, name, new, got, ah, target>>

Next ==
    \/ \E l \in Launcher : AssignHandle(l) \/ \E c \in Ctx : Register(l, c)
    \/ \E h \in Handle : Retire(h)
    \/ \E h \in Handle \ {0}, n \in Name : NameHandle(h, n)
    \/ AbortStart \/ AbortRead \/ AbortRetire \/ AbortPassEnd

Spec == Init /\ [][Next]_handlevars

-----------------------------------------------------------------------------
(* Properties                                                              *)

\* Every variable keeps its type.
TypeOK ==
    /\ slot_size \in Nat /\ slot \in [0..slot_size - 1 -> Ctx \cup {None}]
    /\ handle_index \in 1..HANDLE_MASK + 1
    /\ handle \in [Ctx -> Handle]
    /\ name \in Seq([name : Name, handle : Handle, by : Ctx \cup {None}])
    /\ new \in [Launcher -> Ctx \cup {None}]
    /\ got \in [Launcher -> Handle]
    /\ apc \in {"idle", "scan", "retire", "done"}
    /\ ai \in Nat /\ an \in BOOLEAN /\ ah \in Handle
    /\ target \subseteq Ctx

\* Every registered context is found under its own handle, also after the
\* table was expanded and handles wrapped around: so no two contexts share a
\* handle, and no message goes to the wrong service.  A context that is being
\* created is already where its handle will look for it.
Findable ==
    /\ \A c \in Registered \ {new[l] : l \in Launcher} : Lookup(handle[c]) = c
    /\ \A l \in Launcher : new[l] \in Registered => slot[got[l] % slot_size] = new[l]

\* skynet_handle_findname returns what a search through all names would, no
\* name is bound twice, and a name bound to a service that was alive leads to
\* this service as long as the name exists: no name outlives its service,
\* whichever way it is retired, to lead to the next owner of the handle.
NamesSound ==
    /\ \A i, j \in 1..Len(name) : name[i].name = name[j].name => i = j
    /\ \A n \in Name :
         LET at == {i \in 1..Len(name) : name[i].name = n}
         IN  FindName(n) = IF at = {} THEN 0 ELSE name[CHOOSE i \in at : TRUE].handle
    /\ \A i \in 1..Len(name) : name[i].by # None => Lookup(name[i].handle) = name[i].by

\* When skynet_handle_retireall returns, every service that had its handle when
\* it was called is retired, although the table is expanded and services
\* come and go while it walks through the slots.
AbortComplete == apc = "done" => target = {}

\* Only one thread at a time creates services, as when all of them are started
\* by the launcher service.
OneLauncher == \A l, k \in Launcher : l = k

\* The assertion in skynet_handle_register's expansion: "assert(new_slot[hash]
\* == NULL)" holds whenever a launcher can come to expand the table.
RehashAssert == Full /\ (\E l \in Launcher : new[l] = None) /\ Unused # {} => Rehashable
=============================================================================

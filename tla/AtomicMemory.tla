---------------------------- MODULE AtomicMemory ----------------------------
(***************************************************************************)
(* What the calls of include/tm.h promise their callers: a transaction     *)
(* works on its own view of one state of the memory and takes effect at    *)
(* one instant, or not at all.                                             *)
(***************************************************************************)
CONSTANTS
  Threads,
  Start,    \* words of the first segment, which is never freed
  Segs,     \* the other segments, of one word each
  Contents, \* what a word can hold
  Zero,     \* the content of a new word
  Free      \* the content of what is not allocated

VARIABLES
  mem,  \* the committed contents
  mode, \* mode[t]: "none", "ro" or "rw"
  snap, \* snap[t]: the state of the memory that t's transaction works on
  view, \* view[t]: the same with its own changes
  used, \* used[t]: words that must not change under it: all it has read or changed
  got   \* got[t]: what its last tm_read returned: {<<word, content>>}, or {}

vars == <<mem, mode, snap, view, used, got>>

Words == Start \cup Segs
NoView == [w \in Words |-> Free]

Init ==
  /\ mem = [w \in Words |-> IF w \in Start THEN Zero ELSE Free]
  /\ mode = [t \in Threads |-> "none"]
  /\ snap = [t \in Threads |-> NoView]
  /\ view = [t \in Threads |-> NoView]
  /\ used = [t \in Threads |-> {}]
  /\ got = [t \in Threads |-> {}]

(* An implementation may guard more words than are used. *)
Begin(t, m, ws) ==
  /\ mode[t] = "none"
  /\ used' = [used EXCEPT ![t] = ws]
  /\ mode' = [mode EXCEPT ![t] = m]
  /\ snap' = [snap EXCEPT ![t] = mem]
  /\ view' = [view EXCEPT ![t] = mem]
  /\ UNCHANGED <<mem, got>>

Use(t, w) == used' = [used EXCEPT ![t] = @ \cup {w}]

Read(t, w) ==
  /\ mode[t] # "none" /\ view[t][w] # Free
  /\ got' = [got EXCEPT ![t] = {<<w, view[t][w]>>}]
  /\ Use(t, w)
  /\ UNCHANGED <<mem, mode, snap, view>>

Change(t, w, c) ==
  /\ got' = [got EXCEPT ![t] = {}]
  /\ mode[t] = "rw"
  /\ view' = [view EXCEPT ![t][w] = c]
  /\ Use(t, w)
  /\ UNCHANGED <<mem, mode, snap>>

Write(t, w, c) == Change(t, w, c) /\ view[t][w] # Free
Alloc(t, s)    == Change(t, s, Zero) /\ view[t][s] = Free
Release(t, s)  == Change(t, s, Free) /\ view[t][s] # Free

(* What was used is still as it was: the work might as well be done now. *)
Current(t) == \A w \in used[t] : snap[t][w] = mem[w]
Merged(t) == [w \in Words |-> IF w \in used[t] THEN view[t][w] ELSE mem[w]]

(* An implementation may move a running transaction to the present. *)
Refresh(t) ==
  /\ mode[t] # "none" /\ Current(t)
  /\ snap' = [snap EXCEPT ![t] = mem]
  /\ view' = [view EXCEPT ![t] = Merged(t)]
  /\ UNCHANGED <<mem, mode, used, got>>

Leave(t) ==
  /\ mode' = [mode EXCEPT ![t] = "none"]
  /\ snap' = [snap EXCEPT ![t] = NoView]
  /\ view' = [view EXCEPT ![t] = NoView]
  /\ used' = [used EXCEPT ![t] = {}]
  /\ got' = [got EXCEPT ![t] = {}]

Commit(t) ==
  /\ \/ mode[t] = "ro" /\ UNCHANGED mem
     \/ mode[t] = "rw" /\ Current(t) /\ mem' = Merged(t)
  /\ Leave(t)

Abort(t) ==
  /\ mode[t] # "none"
  /\ Leave(t)
  /\ UNCHANGED mem

Next == \E t \in Threads :
  \/ \E m \in {"ro", "rw"}, ws \in SUBSET Words : Begin(t, m, ws)
  \/ \E w \in Words : Read(t, w) \/ \E c \in Contents : Write(t, w, c)
  \/ \E s \in Segs : Alloc(t, s) \/ Release(t, s)
  \/ Refresh(t) \/ Commit(t) \/ Abort(t)

Spec == Init /\ [][Next]_vars

=============================================================================

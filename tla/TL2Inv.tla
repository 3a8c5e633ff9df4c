------------------------------- MODULE TL2Inv -------------------------------
(***************************************************************************)
(* The inductive invariant of TL2.tla.  The safety properties of TL2.tla   *)
(* follow from it (TL2Proofs.tla); TLC checks it on the instances of       *)
(* MC_TL2.tla.  All of it is about two things: who may still write a word, *)
(* and which versions a later commit can no longer change.                 *)
(***************************************************************************)
EXTENDS TL2

-----------------------------------------------------------------------------
(* Where a thread is in tm_end, and which locks it owns there.             *)

Locking   == {"lock", "cas"}
Decided   == {"write", "copy", "unlock"}
Ending    == Locking \cup Decided \cup {"release", "tick", "validate"}
Reading   == {"rw_copy", "rw_post"}
RoReading == {"ro_pre", "ro_copy", "ro_post", "ro_clock", "ro_reval"}

(* The progress of tm_end's loops: what is locked is what they went over. *)
Phase(t) ==
  /\ pc[t] \notin Ending => held[t] = {}
  /\ pc[t] \in Locking =>
       /\ held[t] \cup loc[t].todo = Written(t)
       /\ held[t] \cap loc[t].todo = {}
       /\ loc[t].todo # {}
  /\ pc[t] = "cas" => \E w \in loc[t].todo :
       loc[t].cur = {w} /\ loc[t].prev[w] <= tx[t].rv
  /\ pc[t] \in {"tick", "validate"} => held[t] = Written(t) /\ held[t] # {}
  /\ pc[t] \in Decided => held[t] = loc[t].todo /\ held[t] # {} /\ held[t] \subseteq Written(t)
  /\ pc[t] \in {"copy", "unlock"} => \E w \in held[t] : loc[t].cur = {w}
  /\ pc[t] = "release" => held[t] # {}
  /\ pc[t] \in Ending => ~tx[t].ro

(* A lock is owned by one thread, and an owned word was not newer than rv. *)
Owners ==
  /\ \A w \in Words : vl[w].locked <=> \E t \in Threads : w \in held[t]
  /\ \A t, u \in Threads : t # u => held[t] \cap held[u] = {}
  /\ \A t \in Threads : \A w \in held[t] : vl[w].ver <= tx[t].rv

(* Nothing is ahead of the clock. *)
Clock ==
  /\ \A h \in hist : h.ver <= gv
  /\ \A w \in Words : vl[w].ver <= gv
  /\ \A t \in Threads :
       /\ tx[t].rv <= gv
       /\ loc[t].nrv <= gv
       /\ pc[t] \in Decided \cup {"validate"} => tx[t].rv < loc[t].wv /\ loc[t].wv <= gv

(* Word w belongs to a transaction that has committed but not given it back. *)
InWriteBack(w) == \E t \in Threads : pc[t] \in Decided /\ w \in held[t]

(* The newest committed content of a word is in memory, or being put there. *)
Latest ==
  /\ \A w \in Words : ~InWriteBack(w) =>
       /\ [word |-> w, ver |-> vl[w].ver, val |-> mem[w]] \in hist
       /\ \A h \in hist : h.word = w => h.ver <= vl[w].ver
  /\ \A t \in Threads : pc[t] \in Decided => \A w \in held[t] :
       /\ [word |-> w, ver |-> loc[t].wv, val |-> tx[t].ws[w]] \in hist
       /\ \A h \in hist : h.word = w => h.ver <= loc[t].wv
       /\ pc[t] = "unlock" /\ w \in loc[t].cur => mem[w] = tx[t].ws[w]

(* Version v of word w is, and stays, the newest up to s: the commits that *)
(* still may happen at a ticket up to s do not write w.                    *)
Settled(w, v, s) ==
  /\ v <= s
  /\ \A h \in hist : h.word = w /\ h.ver <= s => h.ver <= v
  /\ \A u \in Threads : pc[u] = "validate" /\ w \in held[u] => loc[u].wv > s

SettledRead(r, s) ==
  \E h \in hist : h.word = r[1] /\ h.val = r[2] /\ Settled(r[1], h.ver, s)

(* The words whose copy is in buf. *)
Copied(t) ==
  CASE pc[t] = "rw_post" -> loc[t].cur
    [] pc[t] = "ro_copy" -> loc[t].span \ loc[t].todo
    [] pc[t] \in {"ro_post", "ro_clock", "ro_reval"} -> loc[t].span
    [] OTHER -> {}

(* A copy is good as long as the version read before it is still there: a *)
(* writer that touches the word leaves a newer one.                       *)
Copies(t) ==
  /\ \A w \in Words : loc[t].prev[w] <= vl[w].ver
  /\ \A w \in Copied(t) :
       vl[w].ver = loc[t].prev[w] /\ ~InWriteBack(w) => loc[t].buf[w] = mem[w]
  /\ pc[t] \in Reading => ~tx[t].ro /\ \E w \in Words :
       loc[t].cur = {w} /\ loc[t].prev[w] <= tx[t].rv /\ tx[t].ws[w] = None
  /\ pc[t] \in RoReading => tx[t].ro /\ loc[t].todo \subseteq loc[t].span
  /\ pc[t] \in {"ro_clock", "ro_reval"} => \E w \in loc[t].todo :
       /\ loc[t].cur = {w}
       /\ [word |-> w, ver |-> loc[t].prev[w], val |-> loc[t].buf[w]] \in hist

(* The read set accounts for everything the transaction was given. *)
ReadSet(t) ==
  /\ tx[t].ro => \A r \in seen[t] : \E e \in tx[t].rs :
       e[1] = r[1] /\ [word |-> r[1], ver |-> e[2], val |-> r[2]] \in hist
  /\ tx[t].ro => \A e \in tx[t].rs : e[2] <= gv
  /\ ~tx[t].ro => \A r \in seen[t] :
       r[1] \in Written(t) \/ \E e \in tx[t].rs : e[1] = r[1]
  /\ ~tx[t].ro => suspect[t] = {}
  /\ pc[t] = "idle" => seen[t] = {} /\ suspect[t] = {} /\ ~tx[t].ro

(* What the transaction was given holds at its read version, for good. *)
Snapshot(t) ==
  \A r \in seen[t] : r[1] \notin suspect[t] => SettledRead(r, tx[t].rv)

(* What the two validation loops have gone over. *)
Validation(t) ==
  /\ pc[t] = "ro_reval" =>
       /\ \A e \in tx[t].rs \ loc[t].reval : Settled(e[1], e[2], loc[t].nrv)
       /\ \A e \in tx[t].rs : e[2] <= loc[t].nrv
       /\ \A w \in loc[t].cur : loc[t].prev[w] <= gv
       /\ tx[t].rv <= loc[t].nrv
  /\ pc[t] = "validate" =>
       \A e \in tx[t].rs \ loc[t].reval : Settled(e[1], tx[t].rv, loc[t].wv - 1)

Committed ==
  \A d \in done :
    /\ d.at <= gv
    /\ \A r \in d.reads : r[1] \notin d.suspect => SettledRead(r, d.at)

ThreadInv(t) ==
  Phase(t) /\ Copies(t) /\ ReadSet(t) /\ Snapshot(t) /\ Validation(t)

IInv ==
  /\ TypeOK /\ Owners /\ Clock /\ Latest /\ Committed
  /\ \A t \in Threads : ThreadInv(t)

=============================================================================

--------------------------- MODULE WasmHostProofs ---------------------------
(***************************************************************************)
(* The host for any programs on the volume, of any number of any sections: *)
(* which bytes the running program is made of, what its memory holds and   *)
(* which keys wait for it, for which nothing is used of what a section     *)
(* does to the module but that it may be refused.  Then what a module that *)
(* has been read, section by section, may refer to.  Last, what the        *)
(* drawing calls paint, for every window, clip rectangle and argument.     *)
(***************************************************************************)
EXTENDS WasmHost, GuestDraw, SequenceTheorems, FiniteSetTheorems, TLAPS

Points == {"idle", "frame", "load", "guest", "lost"}

FlagTypes ==
  /\ loaded \in BOOLEAN /\ fromDisk \in BOOLEAN /\ torn \in BOOLEAN
  /\ pc \in Points
  /\ loading.next \in {"idle", "frame"}
  /\ loading \in [from : Files \cup {"builtin", "none"}, read : Nat, next : {"idle", "frame"}]

(* A file is loaded from where fs_run put it, and g_from_disk tells which  *)
(* kind of program was loaded last.                                        *)
BytesInv ==
  /\ pc = "load" => loading.from = "builtin" \/ prog = loading.from
  /\ loaded => (fromDisk <=> running # "builtin")
  /\ RunsItsOwnBytes

(* The memory was cleared when the program that has it was begun. *)
MemoryInv ==
  /\ pc = "load" => memOf \subseteq {loading.from}
  /\ pc \notin {"load", "lost"} /\ loaded => memOf \subseteq {running}
  /\ pc = "guest" => loaded

IInv == FlagTypes /\ BytesInv /\ MemoryInv

LEMMA InitIInv == Init => IInv
<1> SUFFICES ASSUME Init PROVE IInv
  OBVIOUS
<1>1. pc = "idle" /\ loading = NoFile /\ loaded = FALSE /\ fromDisk = FALSE /\ torn = FALSE
  BY DEF Init
<1>2. FlagTypes
  BY <1>1 DEF FlagTypes, NoFile, Points
<1>3. BytesInv /\ MemoryInv
  BY <1>1 DEF BytesInv, MemoryInv, RunsItsOwnBytes
<1> QED
  BY <1>2, <1>3 DEF IInv

(* A launch replaces the bytes, or is the builtin's. *)
LEMMA BeginsIInv ==
  ASSUME IInv, NEW file \in Files \cup {"builtin"}, NEW next \in {"idle", "frame"},
         Begins(file, next), UNCHANGED <<host, running, torn>>,
         file = "builtin" \/ prog' = file
  PROVE  IInv'
<1>1. /\ memOf' = {} /\ pc' = "load"
      /\ loading' = [from |-> file, read |-> 0, next |-> next]
      /\ UNCHANGED <<loaded, fromDisk, running, torn>>
  BY DEF Begins, host
<1>2. FlagTypes'
  BY <1>1 DEF IInv, FlagTypes, Points
<1>3. BytesInv'
  BY <1>1 DEF IInv, BytesInv, RunsItsOwnBytes
<1>4. MemoryInv'
  BY <1>1 DEF MemoryInv
<1> QED
  BY <1>2, <1>3, <1>4 DEF IInv

(* A load that ends, well or badly. *)
LEMMA EndsIInv ==
  ASSUME IInv, NEW e, pc = "load", Ends(e), UNCHANGED prog, memOf' \subseteq {loading.from}
  PROVE  IInv'
<1>1. loading' = NoFile /\ pc' = IF e = "ok" THEN loading.next ELSE "idle"
  BY DEF Ends
<1>2. CASE e = "ok"
  <2>1. /\ loaded' = TRUE /\ fromDisk' = (loading.from # "builtin")
        /\ running' = loading.from /\ torn' = FALSE /\ pc' = loading.next
    BY <1>1, <1>2 DEF Ends
  <2>2. FlagTypes'
    BY <1>1, <2>1 DEF IInv, FlagTypes, NoFile, Points
  <2>3. BytesInv' /\ MemoryInv'
    BY <2>1 DEF IInv, FlagTypes, BytesInv, MemoryInv, RunsItsOwnBytes
  <2> QED
    BY <2>2, <2>3 DEF IInv
<1>3. CASE e # "ok"
  <2>1. loaded' = FALSE /\ pc' = "idle" /\ UNCHANGED <<fromDisk, torn>>
    BY <1>1, <1>3 DEF Ends, Refused
  <2>2. FlagTypes'
    BY <1>1, <2>1 DEF IInv, FlagTypes, NoFile, Points
  <2>3. BytesInv' /\ MemoryInv'
    BY <2>1 DEF BytesInv, MemoryInv, RunsItsOwnBytes
  <2> QED
    BY <2>2, <2>3 DEF IInv
<1> QED
  BY <1>2, <1>3

(* A call goes into a program that is loaded. *)
LEMMA CallsIInv ==
  ASSUME IInv, loaded, pc \notin {"load", "lost"}, NEW name, NEW nargs, NEW next \in {"idle", "frame"},
         Calls(name, nargs, next)
  PROVE  IInv'
<1>1. /\ \/ pc' = "guest" /\ loading' = [NoFile EXCEPT !.next = next]
         \/ pc' = next /\ UNCHANGED loading
      /\ UNCHANGED <<loaded, fromDisk, prog, memOf, running, torn>>
  BY DEF Calls, host, history
<1>2. pc' \notin {"load", "lost"}
  BY <1>1
<1>3. FlagTypes'
  BY <1>1 DEF IInv, FlagTypes, NoFile, Points
<1>4. BytesInv'
  BY <1>1, <1>2 DEF IInv, BytesInv, RunsItsOwnBytes
<1>5. MemoryInv'
  BY <1>1, <1>2 DEF IInv, MemoryInv
<1> QED
  BY <1>3, <1>4, <1>5 DEF IInv

(* What leaves the program, its bytes and its memory alone. *)
LEMMA KeepsIInv ==
  ASSUME IInv, UNCHANGED <<host, prog, memOf, running, torn>>,
         pc \notin {"load", "lost"},
         pc' \in {"idle", "frame", "guest"},
         pc' = "guest" => pc = "guest",
         loading' = loading \/ loading' = NoFile
  PROVE  IInv'
<1>1. FlagTypes'
  BY DEF IInv, FlagTypes, NoFile, Points, host
<1>2. BytesInv'
  BY DEF IInv, BytesInv, RunsItsOwnBytes, host
<1>3. MemoryInv'
  BY DEF IInv, MemoryInv, host
<1> QED
  BY <1>1, <1>2, <1>3 DEF IInv

LEMMA LoadSectionIInv == ASSUME IInv, NEW s, LoadSection(s) PROVE IInv'
<1> DEFINE r == Section(mod, s)
<1>1. /\ pc = "load" /\ UNCHANGED prog
      /\ memOf' = IF Writes(mod, s) THEN memOf \cup {loading.from} ELSE memOf
  BY DEF LoadSection
<1>2. memOf' \subseteq {loading.from}
  BY <1>1 DEF IInv, MemoryInv
<1>3. CASE r.err = "ok"
  <2>1. /\ loading' = [loading EXCEPT !.read = @ + 1]
        /\ UNCHANGED <<pc, loaded, fromDisk, running, torn>>
    BY <1>3 DEF LoadSection, host
  <2>2. FlagTypes' /\ loading'.from = loading.from
    BY <2>1 DEF IInv, FlagTypes, Points
  <2>3. BytesInv'
    BY <1>1, <2>1, <2>2 DEF IInv, BytesInv, RunsItsOwnBytes
  <2>4. MemoryInv'
    BY <1>1, <1>2, <2>1, <2>2 DEF MemoryInv
  <2> QED
    BY <2>2, <2>3, <2>4 DEF IInv
<1>4. CASE r.err = "overrun"
  <2>1. pc' = "lost" /\ UNCHANGED <<loading, loaded, fromDisk, running, torn>>
    BY <1>4 DEF LoadSection, host
  <2>2. FlagTypes'
    BY <2>1 DEF IInv, FlagTypes, Points
  <2>3. BytesInv' /\ MemoryInv'
    BY <2>1 DEF IInv, BytesInv, MemoryInv, RunsItsOwnBytes
  <2> QED
    BY <2>2, <2>3 DEF IInv
<1>5. CASE r.err \notin {"ok", "overrun"}
  <2>1. Ends(r.err)
    BY <1>5 DEF LoadSection
  <2> QED
    BY <1>1, <1>2, <2>1, EndsIInv
<1> QED
  BY <1>3, <1>4, <1>5

LEMMA NextIInv == IInv /\ [Next]_vars => IInv'
<1> SUFFICES ASSUME IInv, [Next]_vars PROVE IInv'
  OBVIOUS
<1>1. ASSUME NEW s, LoadSection(s) PROVE IInv'
  BY <1>1, LoadSectionIInv
<1>2. ASSUME NEW e, LoadEnds(e) PROVE IInv'
  <2>1. pc = "load" /\ Ends(e) /\ UNCHANGED <<prog, memOf>>
    BY <1>2 DEF LoadEnds
  <2>2. memOf' \subseteq {loading.from}
    BY <2>1 DEF IInv, MemoryInv
  <2> QED
    BY <2>1, <2>2, EndsIInv
<1>3. ASSUME NEW file \in Files, Run(file) PROVE IInv'
  BY <1>3, BeginsIInv DEF Run
<1>4. ASSUME NEW over \in BOOLEAN, RunFails(over) PROVE IInv'
  <2>1. /\ pc = "idle" /\ prog' = IF over THEN "mixed" ELSE prog
        /\ torn' = (torn \/ (over /\ loaded /\ fromDisk))
        /\ UNCHANGED <<loaded, fromDisk, memOf, pc, loading, running>>
    BY <1>4 DEF RunFails, host
  <2>2. FlagTypes'
    BY <2>1 DEF IInv, FlagTypes
  <2>3. BytesInv'
    BY <2>1 DEF IInv, FlagTypes, BytesInv, RunsItsOwnBytes
  <2>4. MemoryInv'
    BY <2>1 DEF IInv, MemoryInv
  <2> QED
    BY <2>2, <2>3, <2>4 DEF IInv
<1>5. CASE Sound
  <2>1. CASE loaded
    <3>1. pc \notin {"load", "lost"} /\ Calls("set_sound", 1, "frame")
      BY <1>5, <2>1 DEF Sound
    <3> QED
      BY <2>1, <3>1, CallsIInv
  <2>2. CASE ~loaded
    BY <1>5, <2>2, KeepsIInv DEF Sound, history
  <2> QED
    BY <2>1, <2>2
<1>6. CASE Frame
  <2>1. CASE failed # "ok"
    BY <1>6, <2>1, KeepsIInv DEF Frame, history
  <2>2. CASE failed = "ok" /\ ~loaded
    <3>1. Begins("builtin", "frame") /\ UNCHANGED <<host, running, torn>>
      BY <1>6, <2>2 DEF Frame
    <3> QED
      BY <3>1, BeginsIInv
  <2>3. CASE failed = "ok" /\ loaded
    <3>1. pc \notin {"load", "lost"} /\ Calls("frame", 0, "idle")
      BY <1>6, <2>3 DEF Frame
    <3> QED
      BY <2>3, <3>1, CallsIInv
  <2> QED
    BY <2>1, <2>2, <2>3
<1>7. CASE GuestWrites
  <2>1. /\ pc = "guest" /\ memOf' = memOf \cup {running}
        /\ UNCHANGED <<loaded, fromDisk, prog, pc, loading, running, torn>>
    BY <1>7 DEF GuestWrites, host, history
  <2>2. FlagTypes' /\ BytesInv'
    BY <2>1 DEF IInv, FlagTypes, BytesInv, RunsItsOwnBytes
  <2>3. MemoryInv'
    BY <2>1 DEF IInv, MemoryInv
  <2> QED
    BY <2>2, <2>3 DEF IInv
<1>8. CASE HfKey
  BY <1>8, KeepsIInv DEF HfKey
<1>9. CASE GuestEnds
  <2>1. pc = "guest" /\ pc' \in {"idle", "frame"}
    BY <1>9 DEF GuestEnds, IInv, FlagTypes
  <2> QED
    BY <1>9, <2>1, KeepsIInv DEF GuestEnds, history
<1>10. ASSUME NEW code \in Codes, PushKey(code) PROVE IInv'
  BY <1>10, KeepsIInv DEF PushKey
<1>11. ASSUME UNCHANGED vars \/ Overrunning PROVE IInv'
  BY <1>11 DEF Overrunning, vars, host, history, IInv, FlagTypes, BytesInv, MemoryInv,
     RunsItsOwnBytes
<1> QED
  BY <1>1, <1>2, <1>3, <1>4, <1>5, <1>6, <1>7, <1>8, <1>9, <1>10, <1>11 DEF Next

(* Whatever files are launched, refused, cut short or half read, in any    *)
(* order and with any sections, a program from the volume runs from its    *)
(* own bytes or a failed read went over them.                              *)
THEOREM AlwaysItsOwnBytes == Spec => []RunsItsOwnBytes
<1>1. Init => IInv
  BY InitIInv
<1>2. IInv /\ [Next]_vars => IInv'
  BY NextIInv
<1>3. IInv => RunsItsOwnBytes
  BY DEF IInv, BytesInv
<1> QED
  BY <1>1, <1>2, <1>3, PTL DEF Spec

----------------------------------------------------------------------------
(* The ring of keys. *)

(* Where a place of the ring is, one turn on at most, and how many wait.   *)
Wrap(n) == n % KeySlots
Waiting == Wrap(tail - head + KeySlots)

RingInv ==
  /\ head \in 0 .. KeySlots - 1 /\ tail \in 0 .. KeySlots - 1
  /\ DOMAIN keys = 0 .. KeySlots - 1
  /\ typed = Queue

LEMMA WrapFacts ==
  ASSUME NEW n \in Nat, n < 2 * KeySlots
  PROVE  Wrap(n) = IF n < KeySlots THEN n ELSE n - KeySlots
<1>1. KeySlots \in Nat /\ KeySlots > 1
  BY HostAssumption
<1> QED
  BY <1>1 DEF Wrap

LEMMA WaitingFacts ==
  ASSUME RingInv
  PROVE  /\ Waiting \in 0 .. KeySlots - 1
         /\ Waiting = IF tail < head THEN tail - head + KeySlots ELSE tail - head
<1>1. KeySlots \in Nat /\ KeySlots > 1
  BY HostAssumption
<1>2. head \in Nat /\ tail \in Nat /\ head < KeySlots /\ tail < KeySlots
  BY <1>1 DEF RingInv
<1>3. tail - head + KeySlots \in Nat /\ tail - head + KeySlots < 2 * KeySlots
  BY <1>1, <1>2
<1> QED
  BY <1>1, <1>2, <1>3, WrapFacts DEF Waiting

(* Sequences, by what they hold at each place. *)
LEMMA SeqIs ==
  ASSUME NEW S, NEW n \in Nat, NEW s \in [1 .. n -> S]
  PROVE  s \in Seq(S) /\ Len(s) = n
<1>1. s \in Seq(S)
  BY SeqDef
<1>2. DOMAIN s = 1 .. n /\ DOMAIN s = 1 .. Len(s) /\ Len(s) \in Nat
  BY <1>1, LenProperties
<1> QED
  BY <1>1, <1>2

LEMMA AppendIs ==
  ASSUME NEW S, NEW n \in Nat, NEW s \in [1 .. n -> S], NEW e \in S
  PROVE  /\ Append(s, e) \in [1 .. n + 1 -> S]
         /\ \A i \in 1 .. n + 1 : Append(s, e)[i] = IF i = n + 1 THEN e ELSE s[i]
<1>1. s \in Seq(S) /\ Len(s) = n
  BY SeqIs
<1>2. /\ Append(s, e) \in Seq(S) /\ Len(Append(s, e)) = n + 1
      /\ \A i \in 1 .. n : Append(s, e)[i] = s[i]
      /\ Append(s, e)[n + 1] = e
  BY <1>1, AppendProperties
<1>3. Append(s, e) \in [1 .. n + 1 -> S]
  BY <1>2, LenProperties
<1> QED
  BY <1>2, <1>3

LEMMA TailIs ==
  ASSUME NEW S, NEW n \in Nat, n > 0, NEW s \in [1 .. n -> S]
  PROVE  /\ Tail(s) \in [1 .. n - 1 -> S]
         /\ \A i \in 1 .. n - 1 : Tail(s)[i] = s[i + 1]
<1>1. s \in Seq(S) /\ Len(s) = n
  BY SeqIs
<1>2. /\ Tail(s) \in Seq(S) /\ Len(Tail(s)) = n - 1
      /\ \A i \in 1 .. n - 1 : Tail(s)[i] = s[i + 1]
  BY <1>1, HeadTailProperties
<1>3. Tail(s) \in [1 .. n - 1 -> S]
  BY <1>2, LenProperties
<1> QED
  BY <1>2, <1>3

LEMMA QueueIs == Queue = [i \in 1 .. Waiting |-> keys[Wrap(head + i - 1)]]
  BY DEF Queue, Waiting, Wrap

LEMMA DroppedRing == ASSUME RingInv, KeysDropped, typed' = << >> PROVE RingInv'
<1>1. KeySlots \in Nat /\ KeySlots > 1
  BY HostAssumption
<1>2. head' = 0 /\ tail' = 0 /\ keys' = keys
  BY DEF KeysDropped
<1>3. (tail' - head' + KeySlots) % KeySlots = 0
  BY <1>1, <1>2
<1>4. Queue' = << >>
  BY <1>2, <1>3 DEF Queue
<1> QED
  BY <1>1, <1>2, <1>4 DEF RingInv

(* A key that is pushed comes last. *)
LEMMA PushRing == ASSUME RingInv, NEW code, PushKey(code) PROVE RingInv'
<1> DEFINE n == Waiting
<1>1. KeySlots \in Nat /\ KeySlots > 1
  BY HostAssumption
<1>2. head \in Nat /\ tail \in Nat /\ head < KeySlots /\ tail < KeySlots
  BY <1>1 DEF RingInv
<1>3. /\ tail' = Wrap(tail + 1) /\ tail' # head /\ head' = head
      /\ keys' = [keys EXCEPT ![tail] = code] /\ typed' = Append(typed, code)
  BY DEF PushKey, Wrap
<1>4. tail' = IF tail + 1 < KeySlots THEN tail + 1 ELSE 0
  <2>1. Wrap(tail + 1) = IF tail + 1 < KeySlots THEN tail + 1 ELSE tail + 1 - KeySlots
    BY <1>1, <1>2, WrapFacts
  <2> QED
    BY <1>1, <1>2, <1>3, <2>1
<1>5. n \in Nat /\ n = (IF tail < head THEN tail - head + KeySlots ELSE tail - head)
  BY WaitingFacts
<1>6. Waiting' = n + 1 /\ n + 1 < KeySlots
  <2> DEFINE m == tail' - head' + KeySlots
  <2>1. m \in Nat /\ m < 2 * KeySlots
    BY <1>1, <1>2, <1>3, <1>4
  <2>2. Wrap(m) = IF m < KeySlots THEN m ELSE m - KeySlots
    <3> HIDE DEF m
    <3> QED
      BY <2>1, WrapFacts
  <2>3. Waiting' = Wrap(m)
    BY DEF Waiting, Wrap
  <2>4. CASE tail + 1 < KeySlots
    BY <1>1, <1>2, <1>3, <1>4, <1>5, <2>2, <2>3, <2>4
  <2>5. CASE ~(tail + 1 < KeySlots)
    BY <1>1, <1>2, <1>3, <1>4, <1>5, <2>2, <2>3, <2>5
  <2> QED
    BY <2>4, <2>5
<1>7. \A i \in 1 .. n + 1 : /\ Wrap(head + i - 1) \in 0 .. KeySlots - 1
                           /\ Wrap(head + i - 1) = tail <=> i = n + 1
  <2> SUFFICES ASSUME NEW i \in 1 .. n + 1
               PROVE  /\ Wrap(head + i - 1) \in 0 .. KeySlots - 1
                      /\ Wrap(head + i - 1) = tail <=> i = n + 1
    OBVIOUS
  <2> DEFINE m == head + i - 1
  <2>1. m \in Nat /\ m < 2 * KeySlots
    BY <1>1, <1>2, <1>5, <1>6
  <2>2. Wrap(m) = IF m < KeySlots THEN m ELSE m - KeySlots
    <3> HIDE DEF m
    <3> QED
      BY <2>1, WrapFacts
  <2>3. i \in Nat /\ 1 <= i /\ i <= n + 1
    BY <1>5
  <2> QED
    BY <1>1, <1>2, <1>5, <1>6, <2>2, <2>3
<1>8. \A i \in 1 .. n + 1 :
        keys'[Wrap(head + i - 1)] = IF i = n + 1 THEN code ELSE keys[Wrap(head + i - 1)]
  BY <1>3, <1>7 DEF RingInv
<1>9. typed = [i \in 1 .. n |-> keys[Wrap(head + i - 1)]]
  BY QueueIs DEF RingInv
<1>10. Queue' = [i \in 1 .. n + 1 |-> keys'[Wrap(head + i - 1)]]
  <2>1. Queue' = [i \in 1 .. Waiting' |-> keys'[Wrap(head' + i - 1)]]
    BY DEF Queue, Waiting, Wrap
  <2> QED
    BY <2>1, <1>3, <1>6
<1>11. Append(typed, code) = [i \in 1 .. n + 1 |-> IF i = n + 1 THEN code ELSE keys[Wrap(head + i - 1)]]
  <2> DEFINE S == {keys[Wrap(head + i - 1)] : i \in 1 .. n} \cup {code}
  <2>1. typed \in [1 .. n -> S] /\ code \in S
    BY <1>9
  <2>2. /\ Append(typed, code) \in [1 .. n + 1 -> S]
        /\ \A i \in 1 .. n + 1 : Append(typed, code)[i] = IF i = n + 1 THEN code ELSE typed[i]
    <3>1. n \in Nat
      BY <1>5
    <3> HIDE DEF S, n
    <3> QED
      BY <3>1, <2>1, AppendIs
  <2>3. \A i \in 1 .. n + 1 :
          Append(typed, code)[i] = IF i = n + 1 THEN code ELSE keys[Wrap(head + i - 1)]
    BY <1>5, <1>9, <2>2
  <2>4. Append(typed, code) = [i \in 1 .. n + 1 |-> Append(typed, code)[i]]
    <3> HIDE DEF S
    <3> QED
      BY <2>2
  <2> QED
    BY <2>3, <2>4
<1>12. typed' = Queue'
  BY <1>3, <1>8, <1>10, <1>11
<1>13. head' \in 0 .. KeySlots - 1 /\ tail' \in 0 .. KeySlots - 1
       /\ DOMAIN keys' = 0 .. KeySlots - 1
  BY <1>1, <1>2, <1>3, <1>4 DEF RingInv
<1> QED
  BY <1>12, <1>13 DEF RingInv

(* hf_key takes the oldest. *)
LEMMA PopRing == ASSUME RingInv, HfKey PROVE RingInv'
<1> DEFINE n == Waiting
           k(i) == keys[Wrap(head + i - 1)]
           S == {k(i) : i \in 1 .. n}
<1>1. KeySlots \in Nat /\ KeySlots > 1
  BY HostAssumption
<1>2. head \in Nat /\ tail \in Nat /\ head < KeySlots /\ tail < KeySlots
  BY <1>1 DEF RingInv
<1>3. /\ head' = Wrap(head + 1) /\ head # tail /\ UNCHANGED <<tail, keys>>
      /\ typed' = Tail(typed)
  BY DEF HfKey, Wrap
<1>4. head' = IF head + 1 < KeySlots THEN head + 1 ELSE 0
  <2>1. Wrap(head + 1) = IF head + 1 < KeySlots THEN head + 1 ELSE head + 1 - KeySlots
    BY <1>1, <1>2, WrapFacts
  <2> QED
    BY <1>1, <1>2, <1>3, <2>1
<1>5. n \in Nat /\ n > 0 /\ n < KeySlots
      /\ n = (IF tail < head THEN tail - head + KeySlots ELSE tail - head)
  BY <1>1, <1>2, <1>3, WaitingFacts
<1>6. Waiting' = n - 1
  <2> DEFINE m == tail' - head' + KeySlots
  <2>1. m \in Nat /\ m < 2 * KeySlots
    BY <1>1, <1>2, <1>3, <1>4
  <2>2. Wrap(m) = IF m < KeySlots THEN m ELSE m - KeySlots
    <3> HIDE DEF m
    <3> QED
      BY <2>1, WrapFacts
  <2>3. Waiting' = Wrap(m)
    BY DEF Waiting, Wrap
  <2>4. CASE head + 1 < KeySlots
    BY <1>1, <1>2, <1>3, <1>4, <1>5, <2>2, <2>3, <2>4
  <2>5. CASE ~(head + 1 < KeySlots)
    BY <1>1, <1>2, <1>3, <1>4, <1>5, <2>2, <2>3, <2>5
  <2> QED
    BY <2>4, <2>5
<1>7. \A i \in 1 .. n - 1 : Wrap(head' + i - 1) = Wrap(head + (i + 1) - 1)
  <2> SUFFICES ASSUME NEW i \in 1 .. n - 1
               PROVE  Wrap(head' + i - 1) = Wrap(head + (i + 1) - 1)
    OBVIOUS
  <2> DEFINE m == head' + i - 1
             o == head + (i + 1) - 1
  <2>1. i \in Nat /\ 1 <= i /\ i <= n - 1
    BY <1>5
  <2>2. m \in Nat /\ m < 2 * KeySlots /\ o \in Nat /\ o < 2 * KeySlots
    BY <1>1, <1>2, <1>4, <1>5, <2>1
  <2>3. /\ Wrap(m) = IF m < KeySlots THEN m ELSE m - KeySlots
        /\ Wrap(o) = IF o < KeySlots THEN o ELSE o - KeySlots
    <3> HIDE DEF m, o
    <3> QED
      BY <2>2, WrapFacts
  <2>4. Wrap(m) = Wrap(o)
    <3>1. CASE head + 1 < KeySlots
      BY <1>1, <1>2, <1>4, <2>1, <2>3, <3>1
    <3>2. CASE ~(head + 1 < KeySlots)
      BY <1>1, <1>2, <1>4, <1>5, <2>1, <2>3, <3>2
    <3> QED
      BY <3>1, <3>2
  <2> QED
    BY <2>4
<1>8. typed = [i \in 1 .. n |-> k(i)]
  BY QueueIs DEF RingInv
<1>9. typed \in [1 .. n -> S] /\ \A i \in 1 .. n : typed[i] = k(i)
  BY <1>8
<1>10. /\ Tail(typed) \in [1 .. n - 1 -> S]
       /\ \A i \in 1 .. n - 1 : Tail(typed)[i] = typed[i + 1]
  <2>1. n \in Nat /\ n > 0 /\ typed \in [1 .. n -> S]
    BY <1>5, <1>9
  <2> HIDE DEF S, n
  <2> QED
    BY <2>1, TailIs
<1>11. \A i \in 1 .. n - 1 : typed[i + 1] = keys[Wrap(head + (i + 1) - 1)]
  <2>1. \A i \in 1 .. n - 1 : i + 1 \in 1 .. n
    BY <1>5
  <2> QED
    BY <1>9, <2>1
<1>12. Queue' = [i \in 1 .. n - 1 |-> keys[Wrap(head' + i - 1)]]
  <2>1. Queue' = [i \in 1 .. Waiting' |-> keys'[Wrap(head' + i - 1)]]
    BY DEF Queue, Waiting, Wrap
  <2> QED
    BY <2>1, <1>3, <1>6
<1>13. typed' = Queue'
  <2>1. \A i \in 1 .. n - 1 : Tail(typed)[i] = keys[Wrap(head' + i - 1)]
    BY <1>7, <1>10, <1>11
  <2>2. Tail(typed) = [i \in 1 .. n - 1 |-> Tail(typed)[i]]
    <3> HIDE DEF S
    <3> QED
      BY <1>10
  <2> QED
    BY <1>3, <1>12, <2>1, <2>2
<1>14. head' \in 0 .. KeySlots - 1 /\ tail' \in 0 .. KeySlots - 1
       /\ DOMAIN keys' = 0 .. KeySlots - 1
  BY <1>1, <1>2, <1>3, <1>4 DEF RingInv
<1> QED
  BY <1>13, <1>14 DEF RingInv

LEMMA InitRing == Init => RingInv
<1> SUFFICES ASSUME Init PROVE RingInv
  OBVIOUS
<1>1. KeySlots \in Nat /\ KeySlots > 1
  BY HostAssumption
<1>2. head = 0 /\ tail = 0 /\ keys = [i \in 0 .. KeySlots - 1 |-> 0] /\ typed = << >>
  BY DEF Init
<1>3. (tail - head + KeySlots) % KeySlots = 0
  BY <1>1, <1>2
<1>4. Queue = << >>
  BY <1>2, <1>3 DEF Queue
<1> QED
  BY <1>1, <1>2, <1>4 DEF RingInv

LEMMA NextRing == RingInv /\ [Next]_vars => RingInv'
<1> SUFFICES ASSUME RingInv, [Next]_vars PROVE RingInv'
  OBVIOUS
<1>1. CASE UNCHANGED <<ring, typed>>
  BY <1>1 DEF ring, RingInv, Queue
<1>2. ASSUME NEW s, LoadSection(s) PROVE RingInv'
  BY <1>1, <1>2 DEF LoadSection
<1>3. ASSUME NEW e, LoadEnds(e) PROVE RingInv'
  BY <1>1, <1>3 DEF LoadEnds
<1>4. ASSUME NEW file \in Files, Run(file) PROVE RingInv'
  BY <1>4, DroppedRing DEF Run, Begins
<1>5. ASSUME NEW over \in BOOLEAN, RunFails(over) PROVE RingInv'
  BY <1>1, <1>5 DEF RunFails
<1>6. CASE Sound
  BY <1>1, <1>6 DEF Sound, Calls, history
<1>7. CASE Frame
  <2>1. CASE failed = "ok" /\ ~loaded
    BY <1>7, <2>1, DroppedRing DEF Frame, Begins
  <2>2. CASE failed # "ok"
    BY <1>1, <1>7, <2>2 DEF Frame, history
  <2>3. CASE failed = "ok" /\ loaded
    BY <1>1, <1>7, <2>3 DEF Frame, Calls, history
  <2> QED
    BY <2>1, <2>2, <2>3
<1>8. CASE GuestWrites
  BY <1>1, <1>8 DEF GuestWrites, history
<1>9. CASE HfKey
  BY <1>9, PopRing
<1>10. CASE GuestEnds
  BY <1>1, <1>10 DEF GuestEnds, history
<1>11. ASSUME NEW code \in Codes, PushKey(code) PROVE RingInv'
  BY <1>11, PushRing
<1>12. ASSUME UNCHANGED vars \/ Overrunning PROVE RingInv'
  BY <1>1, <1>12 DEF vars, history, Overrunning
<1> QED
  BY <1>2, <1>3, <1>4, <1>5, <1>6, <1>7, <1>8, <1>9, <1>10, <1>11, <1>12 DEF Next

(* A queue of any size, any programs, any keys: what the running program   *)
(* reads is what was typed at it, in order, and what it finds in its       *)
(* memory is its own, whatever ran or failed to load before it.            *)
THEOREM NothingEverInherited == Spec => []NothingInherited
<1>1. Init => IInv /\ RingInv
  BY InitIInv, InitRing
<1>2. IInv /\ RingInv /\ [Next]_vars => IInv' /\ RingInv'
  BY NextIInv, NextRing
<1>3. IInv /\ RingInv => NothingInherited
  BY DEF IInv, MemoryInv, RingInv, NothingInherited
<1> QED
  BY <1>1, <1>2, <1>3, PTL DEF Spec

----------------------------------------------------------------------------
(* Reading a file's sections.                                              *)

Functions == [type : Nat, host : Nat, body : Nat, locals : Nat, runs : BOOLEAN]

Modules ==
  [types : Seq(Signatures), ntypes : Nat, funcs : Seq(Functions), nimports : Nat,
   first : Nat, exports : Seq(Exported), globals : Nat, pages : Nat, limit : Nat]

(* LoadedInBounds of any module. *)
InBounds(m) ==
  /\ Len(m.types) <= MaxTypes /\ m.ntypes <= Len(m.types)
  /\ Len(m.funcs) <= MaxFuncs /\ Len(m.exports) <= MaxExports
  /\ m.globals <= MaxGlobals
  /\ m.limit <= MemBytes
  /\ \A f \in DOMAIN m.funcs :
       /\ m.funcs[f].type < Len(m.types)
       /\ m.funcs[f].host \in 0 .. Hosts
       /\ m.funcs[f].locals <= MaxByte

SoundModule(m) == m \in Modules /\ InBounds(m)

(* The least of some numbers, by the well-foundedness of inclusion among   *)
(* the intervals below them.                                               *)
LEMMA LeastOf ==
  ASSUME NEW T \in SUBSET Nat, T # {}
  PROVE  \E x \in T : \A y \in T : x <= y
<1> DEFINE below(n) == 0 .. n
           D == {below(n) : n \in T}
           R == StrictSubsetOrdering(Nat)
           F == FiniteSubsetsOf(Nat)
<1>1. \A n \in Nat : below(n) \in F
  BY FS_Interval DEF FiniteSubsetsOf
<1>2. D \subseteq F /\ D # {}
  BY <1>1
<1>3. IsWellFoundedOn(R, F)
  BY FS_StrictSubsetOrderingWellFounded
<1>4. PICK d \in D : \A e \in D : <<e, d>> \notin R
  <2> HIDE DEF D, R, F
  <2> QED
    BY <1>2, <1>3, WFMin
<1>5. PICK x \in T : d = below(x)
  BY <1>4
<1>6. ASSUME NEW y \in T, y < x PROVE FALSE
  <2>1. below(y) \subseteq below(x) /\ x \in below(x) /\ x \notin below(y)
    BY <1>6
  <2>2. below(y) \in SUBSET Nat /\ below(x) \in SUBSET Nat
    OBVIOUS
  <2> HIDE DEF below
  <2>3. <<below(y), below(x)>> \in R
    BY <2>1, <2>2 DEF StrictSubsetOrdering
  <2>4. below(y) \in D
    OBVIOUS
  <2> QED
    BY <1>4, <1>5, <2>3, <2>4
<1> QED
  BY <1>6

(* What an accepted section has: every item it announced, and no fault in  *)
(* any of them.                                                            *)
LEMMA NoErrors ==
  ASSUME NEW s, Declared(s), NEW errs, NEW ranOut, ranOut # "ok",
         FirstError(s, errs, ranOut) = "ok"
  PROVE  /\ Len(s.items) = s.count /\ DOMAIN s.items = 1 .. s.count
         /\ \A i \in DOMAIN s.items : errs[i] = "ok"
<1> DEFINE bad == {i \in DOMAIN s.items : errs[i] # "ok"}
<1>1. /\ s.items \in Seq(Items(s.id)) /\ s.count \in Nat
      /\ Len(s.items) <= s.count /\ (s.short <=> Len(s.items) < s.count)
  BY DEF Declared
<1>2. DOMAIN s.items = 1 .. Len(s.items) /\ Len(s.items) \in Nat
  BY <1>1, LenProperties
<1>3. bad = {}
  <2> SUFFICES ASSUME bad # {} PROVE FALSE
    OBVIOUS
  <2>1. bad \in SUBSET Nat
    BY <1>2
  <2>2. \E i \in bad : \A j \in bad : i <= j
    <3> HIDE DEF bad
    <3> QED
      BY <2>1, LeastOf
  <2>3. errs[CHOOSE i \in bad : \A j \in bad : i <= j] # "ok"
    BY <2>2
  <2> QED
    BY <2>3 DEF FirstError
<1>4. ~s.short
  BY <1>3 DEF FirstError
<1> QED
  BY <1>1, <1>2, <1>3, <1>4

LEMMA BlankSound == SoundModule(Blank)
<1>1. << >> \in Seq(Signatures) /\ << >> \in Seq(Functions) /\ << >> \in Seq(Exported)
      /\ Len(<< >>) = 0 /\ DOMAIN << >> = {}
  BY EmptySeq
<1> QED
  BY <1>1, LoadAssumption DEF SoundModule, Modules, InBounds, Blank

LEMMA JudgedOk ==
  ASSUME NEW m, NEW to, NEW e, Judged(m, to, e).err = "ok"
  PROVE  e = "ok" /\ Judged(m, to, e).mod = to
BY DEF Judged, Ok, Fails

(* The types: of a section read before, those this one is too short to     *)
(* replace stay behind, and keep the functions that use them in bounds.    *)
LEMMA TypesSound ==
  ASSUME NEW m, SoundModule(m), NEW s, Declared(s), s.id = 1, TypeSection(m, s).err = "ok"
  PROVE  /\ SoundModule(TypeSection(m, s).mod)
         /\ TypeSection(m, s).mod.funcs = m.funcs
         /\ TypeSection(m, s).mod.nimports = m.nimports /\ TypeSection(m, s).mod.first = m.first
<1> DEFINE rest == SubSeq(m.types, s.count + 1, Len(m.types))
           new == s.items \o rest
<1>1. /\ s.count <= MaxTypes /\ FirstError(s, TypeErrors(s), "type") = "ok"
      /\ TypeSection(m, s).mod = [m EXCEPT !.types = new, !.ntypes = s.count]
  <2> DEFINE to == [m EXCEPT !.types = new, !.ntypes = s.count]
  <2>1. ~(s.count > MaxTypes)
    BY DEF TypeSection, Fails
  <2>2. TypeSection(m, s) = Judged(m, to, FirstError(s, TypeErrors(s), "type"))
    BY <2>1 DEF TypeSection
  <2>3. s.count \in Nat /\ MaxTypes \in Nat
    BY LoadAssumption DEF Declared
  <2> HIDE DEF to
  <2>4. FirstError(s, TypeErrors(s), "type") = "ok" /\ TypeSection(m, s).mod = to
    BY <2>2, JudgedOk
  <2> QED
    BY <2>1, <2>3, <2>4 DEF to
<1>2. Len(s.items) = s.count
  BY <1>1, NoErrors
<1>3. /\ s.items \in Seq(Signatures) /\ s.count \in Nat
      /\ m.types \in Seq(Signatures) /\ Len(m.types) \in Nat
  BY LenProperties DEF Declared, Items, SoundModule, Modules
<1>4. \A i \in s.count + 1 .. Len(m.types) : m.types[i] \in Signatures
  BY <1>3, LenProperties
<1>5. /\ rest \in Seq(Signatures)
      /\ Len(rest) = IF s.count + 1 <= Len(m.types) THEN Len(m.types) - s.count ELSE 0
  BY <1>3, <1>4, SubSeqProperties
<1>6. new \in Seq(Signatures) /\ Len(new) = s.count + Len(rest)
  <2> HIDE DEF rest
  <2> QED
    BY <1>2, <1>3, <1>5, ConcatProperties
<1>7. Len(new) <= MaxTypes /\ s.count <= Len(new) /\ Len(m.types) <= Len(new) /\ Len(new) \in Nat
  <2>1. Len(m.types) <= MaxTypes /\ MaxTypes \in Nat
    BY LoadAssumption DEF SoundModule, InBounds
  <2> HIDE DEF rest, new
  <2> QED
    BY <1>1, <1>3, <1>5, <1>6, <2>1
<1>8. \A f \in DOMAIN m.funcs : m.funcs[f].type < Len(new)
  <2>1. \A f \in DOMAIN m.funcs : m.funcs[f].type \in Nat /\ m.funcs[f].type < Len(m.types)
    <3>1. m.funcs \in Seq(Functions)
      BY DEF SoundModule, Modules
    <3>2. \A f \in DOMAIN m.funcs : m.funcs[f] \in Functions
      BY <3>1, LenProperties
    <3> QED
      BY <3>2 DEF SoundModule, InBounds, Functions
  <2> HIDE DEF new
  <2> QED
    BY <1>3, <1>7, <2>1
<1> HIDE DEF new
<1> DEFINE n == [m EXCEPT !.types = new, !.ntypes = s.count]
<1>9. n \in Modules /\ n.types = new /\ n.ntypes = s.count /\ n.funcs = m.funcs
      /\ n.exports = m.exports /\ n.globals = m.globals /\ n.limit = m.limit
      /\ n.nimports = m.nimports /\ n.first = m.first
  BY <1>3, <1>6 DEF SoundModule, Modules
<1>10. InBounds(n)
  <2> HIDE DEF n
  <2> QED
    BY <1>7, <1>8, <1>9 DEF SoundModule, InBounds
<1> QED
  BY <1>1, <1>9, <1>10 DEF SoundModule

(* Functions are added behind those there are. *)
LEMMA MoreFunctions ==
  ASSUME NEW m, SoundModule(m), NEW more \in Seq(Functions), NEW n \in Modules,
         n.types = m.types, n.ntypes = m.ntypes, n.exports = m.exports,
         n.globals = m.globals, n.limit = m.limit, n.funcs = m.funcs \o more,
         Len(m.funcs) + Len(more) <= MaxFuncs,
         \A k \in DOMAIN more : more[k].type < m.ntypes /\ more[k].host \in 0 .. Hosts
                                  /\ more[k].locals <= MaxByte
  PROVE  SoundModule(n)
<1>1. /\ m.funcs \in Seq(Functions) /\ Len(m.funcs) \in Nat /\ Len(more) \in Nat
      /\ DOMAIN m.funcs = 1 .. Len(m.funcs) /\ DOMAIN more = 1 .. Len(more)
  BY LenProperties DEF SoundModule, Modules
<1>2. /\ Len(n.funcs) = Len(m.funcs) + Len(more) /\ DOMAIN n.funcs = 1 .. Len(n.funcs)
      /\ \A f \in DOMAIN n.funcs :
           n.funcs[f] = IF f <= Len(m.funcs) THEN m.funcs[f] ELSE more[f - Len(m.funcs)]
  BY <1>1, ConcatProperties, LenProperties
<1>3. ASSUME NEW f \in DOMAIN n.funcs
      PROVE  /\ n.funcs[f].type < Len(n.types) /\ n.funcs[f].host \in 0 .. Hosts
             /\ n.funcs[f].locals <= MaxByte
  <2>1. CASE f <= Len(m.funcs)
    <3>1. f \in DOMAIN m.funcs /\ n.funcs[f] = m.funcs[f]
      BY <1>1, <1>2, <2>1
    <3> QED
      BY <3>1 DEF SoundModule, InBounds
  <2>2. CASE ~(f <= Len(m.funcs))
    <3> DEFINE k == f - Len(m.funcs)
    <3>1. k \in DOMAIN more /\ n.funcs[f] = more[k]
      BY <1>1, <1>2, <2>2
    <3> HIDE DEF k
    <3>2. more[k] \in Functions
      BY <1>1, <3>1, ElementOfSeq
    <3>5. more[k].type \in Nat
      BY <3>2 DEF Functions
    <3>4. m.ntypes \in Nat /\ Len(m.types) \in Nat /\ m.ntypes <= Len(m.types)
      BY LenProperties DEF SoundModule, InBounds, Modules
    <3>3. /\ more[k].type < m.ntypes /\ more[k].host \in 0 .. Hosts
          /\ more[k].locals <= MaxByte
      BY <3>1
    <3> QED
      BY <3>1, <3>3, <3>4, <3>5
  <2> QED
    BY <2>1, <2>2
<1> QED
  BY <1>2, <1>3 DEF SoundModule, InBounds

(* Which import of a function is the k-th. *)
LEMMA UpToFinite ==
  ASSUME NEW s, NEW n \in Nat
  PROVE  /\ IsFiniteSet(UpTo(s, n)) /\ Cardinality(UpTo(s, n)) \in Nat
         /\ UpTo(s, 0) = {} /\ Cardinality(UpTo(s, 0)) = 0
<1>1. IsFiniteSet(1 .. n) /\ UpTo(s, n) \subseteq 1 .. n
  BY FS_Interval DEF UpTo
<1>2. UpTo(s, 0) = {}
  BY DEF UpTo
<1> QED
  BY <1>1, <1>2, FS_Subset, FS_CardinalityType, FS_EmptySet

LEMMA UpToNext ==
  ASSUME NEW s, NEW n \in Nat
  PROVE  Cardinality(UpTo(s, n + 1)) =
           IF IsFunc(s, n + 1) THEN Cardinality(UpTo(s, n)) + 1 ELSE Cardinality(UpTo(s, n))
<1>1. UpTo(s, n + 1) = IF IsFunc(s, n + 1) THEN UpTo(s, n) \cup {n + 1} ELSE UpTo(s, n)
  BY DEF UpTo
<1>2. n + 1 \notin UpTo(s, n)
  BY DEF UpTo
<1> QED
  BY <1>1, <1>2, UpToFinite, FS_AddElement

LEMMA NthImport ==
  ASSUME NEW s, NEW l \in Nat, DOMAIN s.items = 1 .. l,
         NEW k \in Nat \ {0}, k <= Cardinality(UpTo(s, l))
  PROVE  Nth(s, k) \in DOMAIN s.items /\ IsFunc(s, Nth(s, k)) /\ Cardinality(UpTo(s, Nth(s, k))) = k
<1> DEFINE T == {i \in 0 .. l : k <= Cardinality(UpTo(s, i))}
<1>1. T \in SUBSET Nat /\ l \in T
  OBVIOUS
<1>2. PICK i \in T : \A j \in T : i <= j
  <2> HIDE DEF T
  <2> QED
    BY <1>1, LeastOf
<1>3. i \in 1 .. l
  BY <1>2, UpToFinite
<1> DEFINE p == i - 1
<1>4. p \in Nat /\ p + 1 = i /\ p \notin T /\ p \in 0 .. l
  BY <1>2, <1>3
<1>5. ~(k <= Cardinality(UpTo(s, p))) /\ k <= Cardinality(UpTo(s, i))
  BY <1>2, <1>4
<1> HIDE DEF p, T
<1>6. IsFunc(s, i) /\ Cardinality(UpTo(s, i)) = k
  BY <1>4, <1>5, UpToNext, UpToFinite
<1> QED
  BY <1>3, <1>6 DEF Nth

(* An accepted import section. *)
WithImports(m, more) == [m EXCEPT !.funcs = @ \o more, !.nimports = @ + Len(more)]
AreImports(m, more) ==
  /\ Len(m.funcs) + Len(more) <= MaxFuncs
  /\ \A k \in DOMAIN more :
       /\ more[k].type < m.ntypes /\ more[k].host \in 1 .. Hosts
       /\ more[k].body = 0 /\ more[k].locals = 0

LEMMA ImportsRead ==
  ASSUME NEW m, SoundModule(m), NEW s, Declared(s), s.id = 2, ImportSection(m, s).err = "ok"
  PROVE  \E more \in Seq(Functions) :
           ImportSection(m, s).mod = WithImports(m, more) /\ AreImports(m, more)
<1> DEFINE l == Len(s.items)
           n == Cardinality(UpTo(s, l))
           more == [k \in 1 .. n |-> Imported(s, k)]
           to == [m EXCEPT !.funcs = @ \o more, !.nimports = @ + n]
<1>1. FirstError(s, ImportErrors(m, s), "truncated") = "ok" /\ ImportSection(m, s).mod = to
  <2>1. ImportSection(m, s) = Judged(m, to, FirstError(s, ImportErrors(m, s), "truncated"))
    BY DEF ImportSection
  <2> HIDE DEF to
  <2> QED
    BY <2>1, JudgedOk
<1>2. /\ s.items \in Seq([kind : Nat, type : Nat, host : Nat])
      /\ l \in Nat /\ DOMAIN s.items = 1 .. l
  BY LenProperties DEF Declared, Items
<1>3. \A i \in DOMAIN s.items : ImportErrors(m, s)[i] = "ok"
  BY <1>1, NoErrors
<1>4. n \in Nat
  BY <1>2, UpToFinite
<1> HIDE DEF n, l
<1>5. ASSUME NEW i \in DOMAIN s.items, IsFunc(s, i)
      PROVE  /\ Len(m.funcs) + Cardinality(UpTo(s, i)) <= MaxFuncs
             /\ s.items[i].type \in Nat /\ s.items[i].type < m.ntypes
             /\ s.items[i].host \in 1 .. Hosts
  <2>1. ImportErrors(m, s)[i] = "ok" /\ s.items[i].kind = 0
    BY <1>3, <1>5 DEF IsFunc
  <2>2. s.items[i] \in [kind : Nat, type : Nat, host : Nat]
    BY <1>2, ElementOfSeq DEF l
  <2>3. m.ntypes \in Nat
    BY DEF SoundModule, Modules
  <2>4. Len(m.funcs) + Cardinality(UpTo(s, i)) <= MaxFuncs
    BY <2>1, <2>2, <2>3 DEF ImportErrors
  <2>5. ~(s.items[i].type >= m.ntypes)
    BY <2>1, <2>2, <2>3, <2>4 DEF ImportErrors
  <2>6. s.items[i].host \in 1 .. Hosts
    BY <2>1, <2>2, <2>3, <2>4, <2>5 DEF ImportErrors
  <2> QED
    BY <2>2, <2>3, <2>4, <2>5, <2>6
<1>6. ASSUME NEW k \in 1 .. n
      PROVE  /\ Imported(s, k) \in Functions
             /\ Imported(s, k).type < m.ntypes /\ Imported(s, k).host \in 1 .. Hosts
             /\ Imported(s, k).body = 0 /\ Imported(s, k).locals = 0
             /\ Len(m.funcs) + k <= MaxFuncs
  <2>1. /\ Nth(s, k) \in DOMAIN s.items /\ IsFunc(s, Nth(s, k))
        /\ Cardinality(UpTo(s, Nth(s, k))) = k
    BY SMTT(30), <1>2, <1>4, NthImport DEF n
  <2>2. /\ Len(m.funcs) + k <= MaxFuncs
        /\ s.items[Nth(s, k)].type \in Nat /\ s.items[Nth(s, k)].type < m.ntypes
        /\ s.items[Nth(s, k)].host \in 1 .. Hosts
    BY <1>5, <2>1
  <2> QED
    BY <2>2, LoadAssumption DEF Imported, Functions
<1>7. more \in Seq(Functions) /\ Len(more) = n /\ DOMAIN more = 1 .. n
  <2>1. more \in [1 .. n -> Functions]
    BY <1>6
  <2> HIDE DEF more
  <2> QED
    BY <1>4, <2>1, SeqDef, LenProperties
<1>8. Len(m.funcs) + n <= MaxFuncs
  <2>1. Len(m.funcs) \in Nat /\ Len(m.funcs) <= MaxFuncs
    BY LenProperties DEF SoundModule, InBounds, Modules
  <2>2. CASE n = 0
    BY <2>1, <2>2
  <2>3. CASE n # 0
    <3>1. n \in 1 .. n
      BY <1>4, <2>3
    <3> QED
      BY <1>6, <3>1
  <2> QED
    BY <2>2, <2>3
<1>9. \A k \in DOMAIN more :
        /\ more[k].type < m.ntypes /\ more[k].host \in 1 .. Hosts
        /\ more[k].body = 0 /\ more[k].locals = 0
  <2>1. \A k \in 1 .. n : more[k] = Imported(s, k)
    OBVIOUS
  <2> HIDE DEF more
  <2> QED
    BY <1>6, <1>7, <2>1
<1>10. WithImports(m, more) = to
  BY <1>7 DEF WithImports
<1> HIDE DEF more, to
<1>11. AreImports(m, more)
  BY <1>7, <1>8, <1>9 DEF AreImports
<1> QED
  BY <1>1, <1>7, <1>10, <1>11

LEMMA ImportsSound ==
  ASSUME NEW m, SoundModule(m), NEW s, Declared(s), s.id = 2, ImportSection(m, s).err = "ok"
  PROVE  SoundModule(ImportSection(m, s).mod)
<1>1. PICK more \in Seq(Functions) :
           ImportSection(m, s).mod = WithImports(m, more) /\ AreImports(m, more)
  BY ImportsRead
<1> DEFINE n == WithImports(m, more)
<1>2. m.funcs \o more \in Seq(Functions) /\ m.nimports + Len(more) \in Nat
  BY ConcatProperties, LenProperties DEF SoundModule, Modules
<1>3. /\ n \in Modules /\ n.types = m.types /\ n.ntypes = m.ntypes /\ n.exports = m.exports
      /\ n.globals = m.globals /\ n.limit = m.limit /\ n.funcs = m.funcs \o more
  BY <1>2 DEF SoundModule, Modules, WithImports
<1>4. \A k \in DOMAIN more : more[k].type < m.ntypes /\ more[k].host \in 0 .. Hosts
                               /\ more[k].locals <= MaxByte
  BY <1>1, LoadAssumption DEF AreImports
<1>5. Len(m.funcs) + Len(more) <= MaxFuncs
  BY <1>1 DEF AreImports
<1> HIDE DEF n
<1>6. SoundModule(n)
  BY <1>3, <1>4, <1>5, MoreFunctions
<1> QED
  BY <1>1, <1>6 DEF n

(* The functions of the module's own, still without code. *)
AreDeclarations(m, more) ==
  /\ Len(m.funcs) + Len(more) <= MaxFuncs
  /\ \A k \in DOMAIN more :
       more[k].type < m.ntypes /\ more[k].host = 0 /\ more[k].body = 0 /\ more[k].locals = 0

(* A section that is accepted does not wrap: all its types are there and   *)
(* known, and one that wraps would have overrun.                           *)
LEMMA NoWrap ==
  ASSUME NEW m, SoundModule(m), NEW s, Declared(s), s.id = 3,
         Room(m, s.count), ~Overruns(m, s), Len(s.items) = s.count,
         \A i \in DOMAIN s.items : s.items[i] < m.ntypes
  PROVE  Len(m.funcs) + s.count <= MaxFuncs
<1>1. /\ Len(m.funcs) \in Nat /\ Len(m.funcs) <= MaxFuncs /\ s.count \in Nat
      /\ MaxFuncs \in Nat /\ Word \in Nat /\ MaxFuncs < Word
  BY LenProperties, LoadAssumption DEF SoundModule, InBounds, Modules, Declared
<1> DEFINE l == Len(m.funcs)
<1>2. ~(l + s.count >= Word)
  <2> SUFFICES ASSUME l + s.count >= Word PROVE FALSE
    OBVIOUS
  <2>0. \A h, c, f, w \in Nat : f < w /\ h + c >= w => c >= f + 1 - h
    OBVIOUS
  <2>1. s.count >= PastEnd(m)
    BY <1>1, <2>0, Zenon DEF PastEnd
  <2>2. Len(s.items) >= PastEnd(m)
    BY <2>1
  <2>3. Len(m.funcs) + s.count >= Word
    OBVIOUS
  <2>4. \A i \in DOMAIN s.items : i <= PastEnd(m) => s.items[i] < m.ntypes
    OBVIOUS
  <2>5. Overruns(m, s)
    BY <2>2, <2>3, <2>4, Zenon DEF Overruns
  <2> QED
    BY <2>5
<1> DEFINE a == l + s.count
<1>3. a \in Nat /\ a < Word
  BY <1>1, <1>2
<1>4. a % Word <= MaxFuncs
  BY DEF Room
<1> HIDE DEF a, l
<1>5. \A b \in Nat, w \in Nat : b < w => b % w = b
  OBVIOUS
<1>6. a % Word = a
  BY <1>1, <1>3, <1>5
<1>7. a <= MaxFuncs
  BY <1>4, <1>6
<1> QED
  BY <1>7 DEF a, l

LEMMA FunctionsRead ==
  ASSUME NEW m, SoundModule(m), NEW s, Declared(s), s.id = 3, FunctionSection(m, s).err = "ok"
  PROVE  \E more \in Seq(Functions) :
           FunctionSection(m, s).mod = Adding(m, more) /\ AreDeclarations(m, more)
<1> DEFINE more == [i \in DOMAIN s.items |-> Own(s.items[i])]
           e == FirstError(s, FunctionErrors(m, s), IF m.ntypes = 0 THEN "type" ELSE "truncated")
<1>1. Room(m, s.count) /\ ~Overruns(m, s)
  BY DEF FunctionSection, Fails
<1>2. FunctionSection(m, s) = Judged(m, Adding(m, more), e)
  BY <1>1 DEF FunctionSection
<1>3. e = "ok" /\ FunctionSection(m, s).mod = Adding(m, more)
  <2> HIDE DEF more, e
  <2> QED
    BY <1>2, JudgedOk
<1>4. s.items \in Seq(Nat) /\ Len(s.items) \in Nat /\ s.count \in Nat
  BY LenProperties DEF Declared, Items
<1>5. /\ Len(s.items) = s.count /\ DOMAIN s.items = 1 .. s.count
      /\ \A i \in DOMAIN s.items : FunctionErrors(m, s)[i] = "ok"
  BY <1>3, NoErrors
<1>6. ASSUME NEW i \in 1 .. s.count PROVE s.items[i] \in Nat /\ s.items[i] < m.ntypes
  <2>1. s.items[i] \in Nat
    BY <1>4, <1>5, ElementOfSeq
  <2>2. m.ntypes \in Nat
    BY DEF SoundModule, Modules
  <2>3. FunctionErrors(m, s)[i] = "ok" /\ i \in DOMAIN s.items
    BY <1>5
  <2> QED
    BY <2>1, <2>2, <2>3 DEF FunctionErrors
<1>7. \A i \in 1 .. s.count : /\ more[i].type < m.ntypes /\ more[i].host = 0
                              /\ more[i].body = 0 /\ more[i].locals = 0
                              /\ more[i] \in Functions
  BY <1>5, <1>6 DEF Functions, Own
<1>8. more \in [1 .. s.count -> Functions]
  BY <1>5, <1>7
<1> HIDE DEF more
<1>9. more \in Seq(Functions) /\ Len(more) = s.count /\ DOMAIN more = 1 .. s.count
  BY <1>4, <1>8, SeqDef, LenProperties
<1>10. Len(m.funcs) + s.count <= MaxFuncs
  BY <1>1, <1>5, <1>6, NoWrap
<1>11. AreDeclarations(m, more)
  BY <1>7, <1>9, <1>10 DEF AreDeclarations
<1> QED
  BY <1>3, <1>9, <1>11

LEMMA FunctionsSound ==
  ASSUME NEW m, SoundModule(m), NEW s, Declared(s), s.id = 3, FunctionSection(m, s).err = "ok"
  PROVE  SoundModule(FunctionSection(m, s).mod)
<1>1. PICK more \in Seq(Functions) :
           FunctionSection(m, s).mod = Adding(m, more) /\ AreDeclarations(m, more)
  BY FunctionsRead
<1> DEFINE n == Adding(m, more)
<1>2. m.funcs \o more \in Seq(Functions) /\ Len(m.funcs) \in Nat
  BY ConcatProperties, LenProperties DEF SoundModule, Modules
<1>3. /\ n \in Modules /\ n.types = m.types /\ n.ntypes = m.ntypes /\ n.exports = m.exports
      /\ n.globals = m.globals /\ n.limit = m.limit /\ n.funcs = m.funcs \o more
  BY <1>2 DEF SoundModule, Modules, Adding
<1>4. \A k \in DOMAIN more : more[k].type < m.ntypes /\ more[k].host \in 0 .. Hosts
                               /\ more[k].locals <= MaxByte
  BY <1>1, LoadAssumption DEF AreDeclarations
<1>5. Len(m.funcs) + Len(more) <= MaxFuncs
  BY <1>1 DEF AreDeclarations
<1> HIDE DEF n
<1>6. SoundModule(n)
  BY <1>3, <1>4, <1>5, MoreFunctions
<1> QED
  BY <1>1, <1>6 DEF n

(* The sections that touch no function. *)
LEMMA MemorySound ==
  ASSUME NEW m, SoundModule(m), NEW s, Declared(s), s.id = 5, MemorySection(m, s).err = "ok"
  PROVE  /\ SoundModule(MemorySection(m, s).mod)
         /\ MemorySection(m, s).mod.funcs = m.funcs
         /\ MemorySection(m, s).mod.nimports = m.nimports /\ MemorySection(m, s).mod.first = m.first
<1> DEFINE pages == IF s.count = 1 /\ ~s.short THEN s.items[1] ELSE 0
           e == IF s.short THEN "truncated" ELSE "ok"
           n == [m EXCEPT !.pages = pages, !.limit = Limit(pages)]
<1>1. ~(s.count > 1)
  BY DEF MemorySection, Fails
<1>2. Fits(pages)
  BY <1>1 DEF MemorySection, Fails
<1>3. MemorySection(m, s) = Judged(m, n, e)
  BY <1>1, <1>2 DEF MemorySection
<1>4. MemorySection(m, s).mod = n
  <2> HIDE DEF n, e
  <2> QED
    BY <1>3, JudgedOk
<1>5. pages \in Nat
  <2>1. s.items \in Seq(Nat) /\ s.count \in Nat /\ (~s.short => ~(Len(s.items) < s.count))
    BY DEF Declared, Items
  <2>2. s.count = 1 /\ ~s.short => 1 \in 1 .. Len(s.items)
    BY <2>1, LenProperties
  <2> QED
    BY <2>1, <2>2, ElementOfSeq
<1>6. Limit(pages) \in Nat /\ Limit(pages) <= MemBytes
  <2>1. Limit(pages) <= MemBytes
    BY <1>2 DEF Fits
  <2>2. pages * PageBytes \in Nat /\ Word \in Nat \ {0}
    BY <1>5, LoadAssumption
  <2>3. \A a \in Nat, w \in Nat \ {0} : a % w \in Nat
    OBVIOUS
  <2> QED
    BY <2>1, <2>2, <2>3 DEF Limit
<1>7. /\ n \in Modules /\ n.types = m.types /\ n.ntypes = m.ntypes /\ n.exports = m.exports
      /\ n.globals = m.globals /\ n.limit = Limit(pages) /\ n.funcs = m.funcs
      /\ n.nimports = m.nimports /\ n.first = m.first
  <2> HIDE DEF pages
  <2> QED
    BY <1>5, <1>6 DEF SoundModule, Modules
<1> HIDE DEF n, pages
<1>8. InBounds(n)
  BY <1>6, <1>7 DEF SoundModule, InBounds
<1> QED
  BY <1>4, <1>7, <1>8 DEF SoundModule

LEMMA GlobalsSound ==
  ASSUME NEW m, SoundModule(m), NEW s, Declared(s), s.id = 6, GlobalSection(m, s).err = "ok"
  PROVE  /\ SoundModule(GlobalSection(m, s).mod)
         /\ GlobalSection(m, s).mod.funcs = m.funcs
         /\ GlobalSection(m, s).mod.nimports = m.nimports /\ GlobalSection(m, s).mod.first = m.first
<1> DEFINE c == IF s.count = 0 THEN m.globals ELSE s.count
           n == [m EXCEPT !.globals = IF s.count = 0 THEN @ ELSE s.count]
<1>1. ~(s.count > MaxGlobals)
  BY DEF GlobalSection, Fails
<1>2. GlobalSection(m, s).mod = n
  <2>1. \E e : GlobalSection(m, s) = Judged(m, n, e)
    BY <1>1 DEF GlobalSection
  <2> HIDE DEF n
  <2> QED
    BY <2>1, JudgedOk
<1>3. s.count \in Nat /\ MaxGlobals \in Nat /\ m.globals \in Nat /\ m.globals <= MaxGlobals
  BY LoadAssumption DEF Declared, SoundModule, Modules, InBounds
<1>4. c \in Nat /\ c <= MaxGlobals
  BY <1>1, <1>3
<1>5. /\ n \in Modules /\ n.types = m.types /\ n.ntypes = m.ntypes /\ n.exports = m.exports
      /\ n.globals = c /\ n.limit = m.limit /\ n.funcs = m.funcs
      /\ n.nimports = m.nimports /\ n.first = m.first
  BY <1>4 DEF SoundModule, Modules
<1> HIDE DEF n, c
<1>6. InBounds(n)
  BY <1>4, <1>5 DEF SoundModule, InBounds
<1> QED
  BY <1>2, <1>5, <1>6 DEF SoundModule

LEMMA ExportsSound ==
  ASSUME NEW m, SoundModule(m), NEW s, Declared(s), s.id = 7, ExportSection(m, s).err = "ok"
  PROVE  /\ SoundModule(ExportSection(m, s).mod)
         /\ ExportSection(m, s).mod.funcs = m.funcs
         /\ ExportSection(m, s).mod.nimports = m.nimports /\ ExportSection(m, s).mod.first = m.first
<1> DEFINE c == IF s.count = 0 THEN m.exports ELSE s.items
           n == [m EXCEPT !.exports = IF s.count = 0 THEN @ ELSE s.items]
<1>1. ~(s.count > MaxExports)
  BY DEF ExportSection, Fails
<1>2. ExportSection(m, s).mod = n
  <2>1. \E e : ExportSection(m, s) = Judged(m, n, e)
    BY <1>1 DEF ExportSection
  <2> HIDE DEF n
  <2> QED
    BY <2>1, JudgedOk
<1>3. /\ s.items \in Seq(Exported) /\ Len(s.items) \in Nat /\ Len(s.items) <= s.count
      /\ s.count \in Nat /\ MaxExports \in Nat
      /\ m.exports \in Seq(Exported) /\ Len(m.exports) <= MaxExports
  BY SMTT(30), LoadAssumption, LenProperties DEF Declared, Items, SoundModule, Modules, InBounds
<1>4. c \in Seq(Exported) /\ Len(c) <= MaxExports
  BY <1>1, <1>3
<1>5. /\ n \in Modules /\ n.types = m.types /\ n.ntypes = m.ntypes /\ n.exports = c
      /\ n.globals = m.globals /\ n.limit = m.limit /\ n.funcs = m.funcs
      /\ n.nimports = m.nimports /\ n.first = m.first
  BY <1>4 DEF SoundModule, Modules
<1> HIDE DEF n, c
<1>6. InBounds(n)
  BY <1>4, <1>5 DEF SoundModule, InBounds
<1> QED
  BY <1>2, <1>5, <1>6 DEF SoundModule

(* An accepted code section: every body is of a function that was read, and *)
(* only bodies and locals change.                                          *)
LEMMA CodeRead ==
  ASSUME NEW m, SoundModule(m), NEW s, Declared(s), s.id = 10, CodeSection(m, s).err = "ok"
  PROVE  LET n == CodeSection(m, s).mod IN
         /\ SoundModule(n) /\ n.nimports = m.nimports /\ n.first = m.first
         /\ DOMAIN n.funcs = DOMAIN m.funcs
         /\ \A f \in DOMAIN m.funcs :
              /\ n.funcs[f].host = m.funcs[f].host
              /\ n.funcs[f].body = IF f - m.first \in 1 .. s.count THEN f - m.first
                                   ELSE m.funcs[f].body
<1> DEFINE coded(f) == IF HasBody(m, s, f)
                       THEN Coded(m.funcs[f], BodyOf(m, s, f), s.items[BodyOf(m, s, f)])
                       ELSE m.funcs[f]
           funcs == [f \in DOMAIN m.funcs |-> coded(f)]
           n == [m EXCEPT !.funcs = funcs]
           e == FirstError(s, CodeErrors(m, s), "truncated")
<1>1. CodeSection(m, s) = Judged(m, n, e)
  BY DEF CodeSection
<1>2. e = "ok" /\ CodeSection(m, s).mod = n
  <2> HIDE DEF n, e
  <2> QED
    BY <1>1, JudgedOk
<1>3. s.items \in Seq(Items(s.id)) /\ s.count \in Nat
  BY LoadAssumption DEF Declared
<1>4. /\ Len(s.items) = s.count /\ DOMAIN s.items = 1 .. s.count
      /\ \A i \in DOMAIN s.items : CodeErrors(m, s)[i] = "ok"
  <2>1. FirstError(s, CodeErrors(m, s), "truncated") = "ok"
    BY <1>2
  <2> HIDE DEF n, funcs, coded, e
  <2> QED
    BY <2>1, NoErrors
<1>5. ASSUME NEW i \in 1 .. s.count
      PROVE  s.items[i].locals % Word \in Nat /\ s.items[i].locals % Word <= MaxByte
  <2>1. s.items[i].locals \in Nat /\ s.items[i].i32 \in BOOLEAN
    <3> DEFINE Bodies == [ends : {"behind", "before", "outside"}, i32 : BOOLEAN, locals : Nat]
    <3>1. s.items \in Seq(Bodies)
      BY DEF Declared, Items
    <3>2. \A b \in Bodies : b.locals \in Nat /\ b.i32 \in BOOLEAN
      OBVIOUS
    <3> HIDE DEF Bodies
    <3>3. s.items[i] \in Bodies
      BY <1>4, <3>1, ElementOfSeq
    <3> QED
      BY <3>2, <3>3
  <2>2. CodeErrors(m, s)[i] = "ok" /\ i \in DOMAIN s.items
    BY <1>4
  <2>3. ~(s.items[i].locals % Word > MaxByte)
    BY <2>1, <2>2 DEF CodeErrors
  <2>4. \A a \in Nat, w \in Nat \ {0} : a % w \in Nat
    OBVIOUS
  <2>5. s.items[i].locals % Word \in Nat
    BY <2>1, <2>4, LoadAssumption
  <2> QED
    BY <2>3, <2>5, LoadAssumption
<1>6. /\ m.funcs \in Seq(Functions) /\ Len(m.funcs) \in Nat /\ m.first \in Nat
      /\ DOMAIN m.funcs = 1 .. Len(m.funcs)
      /\ \A f \in DOMAIN m.funcs : m.funcs[f] \in Functions
  BY LenProperties, ElementOfSeq DEF SoundModule, Modules
<1>7. ASSUME NEW f \in DOMAIN m.funcs
      PROVE  /\ HasBody(m, s, f) <=> f - m.first \in 1 .. s.count
             /\ HasBody(m, s, f) => BodyOf(m, s, f) = f - m.first
  <2>1. f \in Nat
    BY <1>6
  <2>2. \A i \in 1 .. s.count : BodyAt(m, i) = f <=> i = f - m.first
    BY <1>3, <1>6, <2>1 DEF BodyAt
  <2> QED
    BY <1>4, <2>2 DEF HasBody, BodyOf
<1>8. ASSUME NEW f \in DOMAIN m.funcs
      PROVE  /\ coded(f) \in Functions
             /\ coded(f).type = m.funcs[f].type /\ coded(f).host = m.funcs[f].host
             /\ coded(f).locals <= MaxByte
             /\ coded(f).body = IF f - m.first \in 1 .. s.count THEN f - m.first
                                ELSE m.funcs[f].body
  <2>1. m.funcs[f] \in Functions /\ m.funcs[f].locals <= MaxByte
    BY <1>6 DEF SoundModule, InBounds
  <2>2. CASE HasBody(m, s, f)
    <3>1. BodyOf(m, s, f) = f - m.first /\ BodyOf(m, s, f) \in 1 .. s.count
      BY <1>7, <2>2
    <3> DEFINE b == s.items[BodyOf(m, s, f)]
    <3>2. /\ b.locals % Word \in Nat /\ b.locals % Word <= MaxByte /\ BodyOf(m, s, f) \in Nat
      BY <1>3, <1>5, <3>1
    <3>3. coded(f) = Coded(m.funcs[f], BodyOf(m, s, f), b)
      BY <2>2
    <3> HIDE DEF b, coded
    <3> QED
      BY <2>1, <2>2, <3>1, <3>2, <3>3 DEF Functions, Coded
  <2>3. CASE ~HasBody(m, s, f)
    BY <1>7, <2>1, <2>3
  <2> QED
    BY <2>2, <2>3
<1>9. /\ funcs \in [1 .. Len(m.funcs) -> Functions]
      /\ DOMAIN funcs = DOMAIN m.funcs
      /\ \A f \in DOMAIN m.funcs : funcs[f] = coded(f)
  <2> HIDE DEF coded
  <2> QED
    BY <1>6, <1>8
<1> HIDE DEF coded, funcs
<1>10. funcs \in Seq(Functions) /\ Len(funcs) = Len(m.funcs)
  BY <1>6, <1>9, SeqDef, LenProperties
<1>11. /\ n \in Modules /\ n.types = m.types /\ n.ntypes = m.ntypes /\ n.exports = m.exports
       /\ n.globals = m.globals /\ n.limit = m.limit /\ n.funcs = funcs
       /\ n.nimports = m.nimports /\ n.first = m.first
  BY <1>10 DEF SoundModule, Modules
<1> HIDE DEF n
<1>12. \A f \in DOMAIN n.funcs :
         n.funcs[f].type < Len(n.types) /\ n.funcs[f].host \in 0 .. Hosts
           /\ n.funcs[f].locals <= MaxByte
  BY <1>8, <1>9, <1>11 DEF SoundModule, InBounds
<1>13. SoundModule(n)
  BY <1>10, <1>11, <1>12 DEF SoundModule, InBounds
<1>14. \A f \in DOMAIN m.funcs :
              /\ n.funcs[f].host = m.funcs[f].host
              /\ n.funcs[f].body = IF f - m.first \in 1 .. s.count THEN f - m.first
                                   ELSE m.funcs[f].body
  BY <1>8, <1>9, <1>11
<1> QED
  BY <1>2, <1>9, <1>11, <1>13, <1>14

LEMMA DataSound ==
  ASSUME NEW m, NEW s, DataSection(m, s).err = "ok"
  PROVE  DataSection(m, s).mod = m
BY JudgedOk DEF DataSection

(* Whatever its declarations, a section that is accepted leaves a module   *)
(* the interpreter can rely on.                                            *)
LEMMA SectionSound ==
  ASSUME NEW m, SoundModule(m), NEW s, Declared(s), Section(m, s).err = "ok"
  PROVE  SoundModule(Section(m, s).mod)
<1>1. s.id = 1 => Section(m, s) = TypeSection(m, s)
  BY DEF Section
<1>2. s.id = 2 => Section(m, s) = ImportSection(m, s)
  BY DEF Section
<1>3. s.id = 3 => Section(m, s) = FunctionSection(m, s)
  BY DEF Section
<1>4. s.id = 5 => Section(m, s) = MemorySection(m, s)
  BY DEF Section
<1>5. s.id = 6 => Section(m, s) = GlobalSection(m, s)
  BY DEF Section
<1>6. s.id = 7 => Section(m, s) = ExportSection(m, s)
  BY DEF Section
<1>7. s.id = 10 => Section(m, s) = CodeSection(m, s)
  BY DEF Section
<1>8. s.id = 11 => Section(m, s) = DataSection(m, s)
  BY DEF Section
<1>9. s.id \notin {1, 2, 3, 5, 6, 7, 10, 11} => Section(m, s).mod = m
  BY DEF Section, Ok
<1> QED
  BY <1>1, <1>2, <1>3, <1>4, <1>5, <1>6, <1>7, <1>8, <1>9,
     TypesSound, ImportsSound, FunctionsSound, MemorySound, GlobalsSound, ExportsSound,
     CodeRead, DataSound

(* Every module that is loaded, or being loaded, is one, unless a loop has *)
(* run past its functions.                                                 *)
ModuleInv == pc # "lost" => SoundModule(mod)

LEMMA SectionsDeclared ==
  ASSUME NEW s \in Pool \cup {Builtin[i] : i \in DOMAIN Builtin}
  PROVE  Declared(s)
BY FilesAssumption

LEMMA NextModule == ModuleInv /\ [Next]_vars => ModuleInv'
<1> SUFFICES ASSUME ModuleInv, [Next]_vars PROVE ModuleInv'
  OBVIOUS
<1> DEFINE Kept == mod' = mod /\ (pc = "lost" => pc' = "lost")
           Wiped == mod' = Blank
<1>1. ASSUME NEW s \in Pool \cup {Builtin[i] : i \in DOMAIN Builtin}, LoadSection(s)
      PROVE  ModuleInv'
  <2>1. CASE Section(mod, s).err = "ok"
    <3>1. mod' = Section(mod, s).mod /\ pc = "load"
      BY <1>1, <2>1 DEF LoadSection
    <3>2. Declared(s)
      BY SectionsDeclared
    <3> QED
      BY <2>1, <3>1, <3>2, SectionSound DEF ModuleInv
  <2>2. CASE Section(mod, s).err = "overrun"
    <3>1. pc' = "lost"
      BY <1>1, <2>2 DEF LoadSection
    <3> QED
      BY <3>1 DEF ModuleInv
  <2>3. CASE Section(mod, s).err \notin {"ok", "overrun"}
    <3>1. mod' = Blank
      BY <1>1, <2>3 DEF LoadSection
    <3> QED
      BY <3>1, BlankSound DEF ModuleInv
  <2> QED
    BY <2>1, <2>2, <2>3
<1>2. ASSUME Kept \/ Wiped PROVE ModuleInv'
  BY <1>2, BlankSound DEF ModuleInv
<1>3. ASSUME NEW e, LoadEnds(e) PROVE Kept \/ Wiped
  BY <1>3 DEF LoadEnds
<1>4. ASSUME NEW file, Run(file) PROVE Wiped
  BY <1>4 DEF Run, Begins
<1>5. ASSUME NEW over, RunFails(over) PROVE Kept
  BY <1>5 DEF RunFails
<1>6. ASSUME pc # "lost", NEW name, NEW nargs, NEW next, Calls(name, nargs, next) PROVE Kept
  BY <1>6 DEF Calls
<1>7. ASSUME Sound PROVE Kept
  BY <1>6, <1>7 DEF Sound
<1>8. ASSUME Frame PROVE Kept \/ Wiped
  <2>1. CASE failed # "ok"
    BY <1>8, <2>1 DEF Frame
  <2>2. CASE failed = "ok" /\ ~loaded
    BY <1>8, <2>2 DEF Frame, Begins
  <2>3. CASE failed = "ok" /\ loaded
    BY <1>6, <1>8, <2>3 DEF Frame
  <2> QED
    BY <2>1, <2>2, <2>3
<1>9. ASSUME GuestWrites \/ HfKey \/ GuestEnds PROVE Kept
  BY <1>9 DEF GuestWrites, HfKey, GuestEnds
<1>10. ASSUME NEW code, PushKey(code) PROVE Kept
  BY <1>10 DEF PushKey
<1>11. ASSUME UNCHANGED vars \/ Overrunning PROVE Kept
  BY <1>11 DEF vars, Overrunning
<1> HIDE DEF Kept, Wiped
<1> QED
  BY <1>1, <1>2, <1>3, <1>4, <1>5, <1>7, <1>8, <1>9, <1>10, <1>11 DEF Next

(* A file of any sections, in any order, any number of times, well formed  *)
(* or cut short, launched after any other: but for a function section      *)
(* whose count wraps, which runs past the array before it is answered, the *)
(* counts wasm_load accepts fit its arrays, every index it leaves names    *)
(* what was read, and the guest's memory is the host's.                    *)
THEOREM LoadedAlwaysInBounds == Spec => []LoadedInBounds
<1>1. Init => ModuleInv
  BY BlankSound DEF Init, ModuleInv
<1>2. ModuleInv => LoadedInBounds
  BY DEF ModuleInv, SoundModule, InBounds, LoadedInBounds
<1> QED
  BY <1>1, <1>2, NextModule, PTL DEF Spec

(* A file read in order so far, up to a section id and with so many bodies: *)
(* nothing precedes the imports, the module's own functions come behind    *)
(* them all at once, and bodies were handed out from the first of those.   *)
ReadInOrder(m, id, n) ==
  /\ m.nimports <= Len(m.funcs)
  /\ id < 2 => Len(m.funcs) = 0
  /\ id < 3 => Len(m.funcs) = m.nimports
  /\ Len(m.funcs) > m.nimports => m.first = m.nimports
  /\ id < 10 => n = 0
  /\ \A f \in DOMAIN m.funcs :
       /\ f <= m.nimports <=> m.funcs[f].host # 0
       /\ f > m.nimports => m.funcs[f].body = IF f - m.nimports <= n THEN f - m.nimports ELSE 0

LEMMA FunctionsWhole ==
  ASSUME NEW m, SoundModule(m)
  PROVE  /\ m.funcs \in Seq(Functions) /\ Len(m.funcs) \in Nat /\ DOMAIN m.funcs = 1 .. Len(m.funcs)
         /\ m.nimports \in Nat /\ m.first \in Nat
BY LenProperties DEF SoundModule, Modules

LEMMA ImportsInOrder ==
  ASSUME NEW m, SoundModule(m), NEW s, Declared(s), s.id = 2, ImportSection(m, s).err = "ok",
         NEW id \in Nat, id < 2, NEW n, ReadInOrder(m, id, n)
  PROVE  ReadInOrder(ImportSection(m, s).mod, 2, n)
<1>1. PICK more \in Seq(Functions) :
        ImportSection(m, s).mod = WithImports(m, more) /\ AreImports(m, more)
  BY ImportsRead
<1> DEFINE k == WithImports(m, more)
<1>2. Len(m.funcs) = 0 /\ m.nimports = 0 /\ n = 0
  BY FunctionsWhole DEF ReadInOrder
<1>3. Len(more) \in Nat /\ DOMAIN more = 1 .. Len(more)
  BY LenProperties
<1>4. /\ k.funcs = m.funcs \o more /\ k.nimports = m.nimports + Len(more)
  BY DEF WithImports, SoundModule, Modules
<1>5. /\ Len(k.funcs) = Len(more) /\ DOMAIN k.funcs = 1 .. Len(more) /\ k.nimports = Len(more)
      /\ \A f \in 1 .. Len(more) : k.funcs[f] = more[f]
  <2>1. /\ Len(m.funcs \o more) = Len(m.funcs) + Len(more)
        /\ \A f \in 1 .. Len(m.funcs) + Len(more) :
             (m.funcs \o more)[f] =
                IF f <= Len(m.funcs) THEN m.funcs[f] ELSE more[f - Len(m.funcs)]
    BY FunctionsWhole, ConcatProperties
  <2>2. m.funcs \o more \in Seq(Functions)
    BY FunctionsWhole, ConcatProperties
  <2>3. DOMAIN (m.funcs \o more) = 1 .. Len(m.funcs \o more)
    BY <2>2, LenProperties
  <2> HIDE DEF k
  <2>4. Len(k.funcs) = Len(more) /\ k.nimports = Len(more)
    <3>1. Len(k.funcs) = Len(m.funcs) + Len(more)
      BY <1>4, <2>1, Zenon
    <3>2. k.nimports = m.nimports + Len(more)
      BY <1>4
    <3> QED
      BY <1>2, <1>3, <3>1, <3>2
  <2>5. ASSUME NEW f \in 1 .. Len(more) PROVE k.funcs[f] = more[f]
    <3>1. f \in 1 .. Len(m.funcs) + Len(more) /\ ~(f <= Len(m.funcs)) /\ f - Len(m.funcs) = f
      BY <1>2, <1>3
    <3> QED
      BY <1>4, <2>1, <3>1
  <2> QED
    BY <1>4, <2>3, <2>4, <2>5
<1> HIDE DEF k
<1>6. \A f \in DOMAIN k.funcs : k.funcs[f].host # 0
  BY <1>1, <1>3, <1>5, LoadAssumption DEF AreImports
<1>7. ReadInOrder(k, 2, n)
  BY <1>2, <1>3, <1>5, <1>6 DEF ReadInOrder
<1> QED
  BY <1>1, <1>7 DEF k

LEMMA FunctionsInOrder ==
  ASSUME NEW m, SoundModule(m), NEW s, Declared(s), s.id = 3, FunctionSection(m, s).err = "ok",
         NEW id \in Nat, id < 3, NEW n, ReadInOrder(m, id, n)
  PROVE  ReadInOrder(FunctionSection(m, s).mod, 3, n)
<1>1. PICK more \in Seq(Functions) :
        FunctionSection(m, s).mod = Adding(m, more) /\ AreDeclarations(m, more)
  BY FunctionsRead
<1> DEFINE k == Adding(m, more)
<1>2. Len(m.funcs) = m.nimports /\ n = 0
  BY DEF ReadInOrder
<1>3. Len(more) \in Nat /\ DOMAIN more = 1 .. Len(more)
  BY LenProperties
<1>4. k.funcs = m.funcs \o more /\ k.nimports = m.nimports /\ k.first = Len(m.funcs)
  BY DEF Adding, SoundModule, Modules
<1> HIDE DEF k
<1>5. /\ Len(k.funcs) = m.nimports + Len(more) /\ DOMAIN k.funcs = 1 .. m.nimports + Len(more)
      /\ \A f \in 1 .. m.nimports + Len(more) :
           k.funcs[f] = IF f <= m.nimports THEN m.funcs[f] ELSE more[f - m.nimports]
  <2>1. /\ Len(m.funcs \o more) = Len(m.funcs) + Len(more)
        /\ \A f \in 1 .. Len(m.funcs) + Len(more) :
             (m.funcs \o more)[f] =
                IF f <= Len(m.funcs) THEN m.funcs[f] ELSE more[f - Len(m.funcs)]
    BY FunctionsWhole, ConcatProperties
  <2>2. m.funcs \o more \in Seq(Functions)
    BY FunctionsWhole, ConcatProperties
  <2>3. DOMAIN (m.funcs \o more) = 1 .. Len(m.funcs \o more)
    BY <2>2, LenProperties
  <2> QED
    BY <1>2, <1>4, <2>1, <2>3
<1>6. \A f \in DOMAIN k.funcs : f <= k.nimports <=> k.funcs[f].host # 0
  <2> SUFFICES ASSUME NEW f \in DOMAIN k.funcs PROVE f <= k.nimports <=> k.funcs[f].host # 0
    OBVIOUS
  <2>1. CASE f <= m.nimports
    <3>1. f \in DOMAIN m.funcs /\ k.funcs[f] = m.funcs[f]
      BY <1>2, <1>5, <2>1, FunctionsWhole
    <3> QED
      BY <1>4, <2>1, <3>1 DEF ReadInOrder
  <2>2. CASE ~(f <= m.nimports)
    <3>1. f - m.nimports \in DOMAIN more /\ k.funcs[f] = more[f - m.nimports]
      <4>1. f \in 1 .. m.nimports + Len(more) /\ m.nimports \in Nat
        BY <1>5, FunctionsWhole
      <4>2. f - m.nimports \in 1 .. Len(more)
        BY <1>3, <2>2, <4>1
      <4> QED
        BY <1>3, <1>5, <2>2, <4>1, <4>2
    <3>2. more[f - m.nimports].host = 0
      BY <1>1, <3>1 DEF AreDeclarations
    <3> QED
      BY <1>4, <2>2, <3>1, <3>2
  <2> QED
    BY <2>1, <2>2
<1>7. \A f \in DOMAIN k.funcs : f > k.nimports =>
        k.funcs[f].body = IF f - k.nimports <= n THEN f - k.nimports ELSE 0
  <2> SUFFICES ASSUME NEW f \in DOMAIN k.funcs, f > k.nimports
               PROVE  k.funcs[f].body = 0 /\ ~(f - k.nimports <= n)
    OBVIOUS
  <2>1. /\ f - m.nimports \in DOMAIN more /\ k.funcs[f] = more[f - m.nimports]
        /\ ~(f - k.nimports <= n)
    BY SMTT(30), <1>2, <1>3, <1>4, <1>5, FunctionsWhole
  <2> QED
    BY <1>1, <2>1 DEF AreDeclarations
<1>8. k.nimports <= Len(k.funcs) /\ k.first = k.nimports
  BY <1>2, <1>3, <1>4, <1>5, FunctionsWhole
<1>9. ReadInOrder(k, 3, n)
  BY <1>2, <1>6, <1>7, <1>8 DEF ReadInOrder
<1> QED
  BY <1>1, <1>9 DEF k

LEMMA CodeInOrder ==
  ASSUME NEW m, SoundModule(m), NEW s, Declared(s), s.id = 10, CodeSection(m, s).err = "ok",
         NEW id \in Nat, id < 10, NEW n, ReadInOrder(m, id, n)
  PROVE  ReadInOrder(CodeSection(m, s).mod, 10, s.count)
<1> DEFINE k == CodeSection(m, s).mod
<1>1. /\ SoundModule(k) /\ k.nimports = m.nimports /\ k.first = m.first
      /\ DOMAIN k.funcs = DOMAIN m.funcs
      /\ \A f \in DOMAIN m.funcs :
           /\ k.funcs[f].host = m.funcs[f].host
           /\ k.funcs[f].body = IF f - m.first \in 1 .. s.count THEN f - m.first
                                ELSE m.funcs[f].body
  BY CodeRead
<1> HIDE DEF k
<1>2. n = 0 /\ s.count \in Nat
  BY DEF ReadInOrder, Declared
<1>3. Len(k.funcs) = Len(m.funcs) /\ Len(k.funcs) \in Nat
  BY <1>1, FunctionsWhole
<1>4. \A f \in DOMAIN k.funcs : f > k.nimports =>
        k.funcs[f].body = IF f - k.nimports <= s.count THEN f - k.nimports ELSE 0
  <2> SUFFICES ASSUME NEW f \in DOMAIN m.funcs, f > m.nimports
               PROVE  k.funcs[f].body = IF f - m.nimports <= s.count THEN f - m.nimports ELSE 0
    BY <1>1
  <2>1. /\ f \in Nat /\ m.nimports \in Nat /\ Len(m.funcs) > m.nimports
    BY FunctionsWhole
  <2>2. m.first = m.nimports
    BY <2>1 DEF ReadInOrder
  <2>4. m.funcs[f].body = IF f - m.nimports <= n THEN f - m.nimports ELSE 0
    BY DEF ReadInOrder
  <2>5. ~(f - m.nimports <= n)
    BY <1>2, <2>1
  <2>3. f - m.first \in 1 .. s.count <=> f - m.nimports <= s.count
    BY <1>2, <2>1, <2>2
  <2> QED
    BY <1>1, <2>2, <2>3, <2>4, <2>5
<1>5. /\ k.nimports <= Len(k.funcs) /\ (Len(k.funcs) > k.nimports => k.first = k.nimports)
      /\ \A f \in DOMAIN k.funcs : f <= k.nimports <=> k.funcs[f].host # 0
  BY <1>1, <1>3 DEF ReadInOrder
<1>6. ReadInOrder(k, 10, s.count)
  BY <1>4, <1>5 DEF ReadInOrder
<1> QED
  BY <1>6 DEF k

(* Another section leaves the functions alone, and comes later. *)
LEMMA OthersInOrder ==
  ASSUME NEW m, NEW k, k.funcs = m.funcs, k.nimports = m.nimports, k.first = m.first,
         NEW id \in Nat, NEW to \in Nat, id <= to, NEW n, ReadInOrder(m, id, n)
  PROVE  ReadInOrder(k, to, n)
BY DEF ReadInOrder

LEMMA SectionInOrder ==
  ASSUME NEW m, SoundModule(m), NEW s, Declared(s), Section(m, s).err = "ok",
         NEW id \in Nat, id < s.id, NEW n, ReadInOrder(m, id, n)
  PROVE  ReadInOrder(Section(m, s).mod, s.id, IF s.id = 10 THEN s.count ELSE n)
<1>0. s.id \in Nat /\ id <= s.id
  BY DEF Declared
<1>1. CASE s.id = 2
  BY <1>1, ImportsInOrder DEF Section
<1>2. CASE s.id = 3
  BY <1>2, FunctionsInOrder DEF Section
<1>3. CASE s.id = 10
  BY <1>3, CodeInOrder DEF Section
<1>4. CASE s.id \notin {2, 3, 10}
  <2> DEFINE k == Section(m, s).mod
  <2>1. k.funcs = m.funcs /\ k.nimports = m.nimports /\ k.first = m.first
    <3>1. CASE s.id = 1
      BY <3>1, TypesSound DEF Section
    <3>2. CASE s.id = 5
      BY <3>2, MemorySound DEF Section
    <3>3. CASE s.id = 6
      BY <3>3, GlobalsSound DEF Section
    <3>4. CASE s.id = 7
      BY <3>4, ExportsSound DEF Section
    <3>5. CASE s.id = 11
      <4>1. Section(m, s) = DataSection(m, s)
        BY <3>5 DEF Section
      <4> QED
        BY <4>1, DataSound
    <3>6. CASE s.id \notin {1, 2, 3, 5, 6, 7, 10, 11}
      BY <3>6 DEF Section, Ok
    <3> QED
      BY <1>4, <3>1, <3>2, <3>3, <3>4, <3>5, <3>6
  <2> HIDE DEF k
  <2>2. ReadInOrder(k, s.id, n)
    BY <1>0, <2>1, OthersInOrder
  <2> QED
    BY <1>4, <2>2 DEF k
<1> QED
  BY <1>1, <1>2, <1>3, <1>4

OrderInv ==
  /\ ModuleInv
  /\ lastId \in 0 .. Unordered
  /\ InOrder => ReadInOrder(mod, lastId, bodies)

LEMMA UnorderedIsNat == Unordered \in Nat /\ Unordered \in 0 .. Unordered /\ 0 \in 0 .. Unordered
BY LoadAssumption DEF Unordered

LEMMA BlankInOrder == ASSUME NEW id \in Nat PROVE ReadInOrder(Blank, id, 0)
<1>1. Len(<< >>) = 0 /\ DOMAIN << >> = {}
  BY EmptySeq
<1> QED
  BY <1>1 DEF ReadInOrder, Blank

LEMMA NextOrder == OrderInv /\ [Next]_vars => OrderInv'
<1> SUFFICES ASSUME OrderInv, [Next]_vars PROVE OrderInv'
  OBVIOUS
<1>0. ModuleInv'
  BY NextModule DEF OrderInv
<1> DEFINE Held == mod' = mod /\ lastId' = lastId /\ bodies' = bodies
           Begun == mod' = Blank /\ lastId' = 0 /\ bodies' = 0
           Ended == lastId' = Unordered
<1>1. ASSUME NEW s \in Pool \cup {Builtin[i] : i \in DOMAIN Builtin}, LoadSection(s)
      PROVE  lastId' \in 0 .. Unordered /\ (lastId' # Unordered => ReadInOrder(mod', lastId', bodies'))
  <2>1. CASE Section(mod, s).err = "ok"
    <3>0. SoundModule(mod)
      BY <1>1 DEF LoadSection, OrderInv, ModuleInv
    <3>1. /\ mod' = Section(mod, s).mod
          /\ lastId' = (IF s.id = 0 THEN lastId ELSE IF s.id > lastId THEN s.id ELSE Unordered)
          /\ bodies' = (IF s.id = 10 THEN s.count ELSE bodies)
      BY <1>1, <2>1 DEF LoadSection
    <3>2. /\ Declared(s) /\ s.id \in Nat /\ lastId \in Nat /\ Unordered \in Nat
          /\ s.id < Unordered /\ lastId <= Unordered
      BY SectionsDeclared, LoadAssumption DEF Declared, OrderInv, Unordered
    <3>3. CASE s.id = 0
      <4>1. mod' = mod
        BY <3>1, <3>3 DEF Section, Ok
      <4>2. lastId' = lastId /\ bodies' = bodies
        BY <3>1, <3>3
      <4> QED
        BY <3>2, <4>1, <4>2 DEF OrderInv, InOrder
    <3>4. CASE s.id # 0 /\ ~(lastId < s.id)
      BY <3>1, <3>2, <3>4
    <3>5. CASE s.id # 0 /\ lastId < s.id /\ lastId # Unordered
      <4>1. lastId' = s.id
        BY <3>1, <3>2, <3>5
      <4>2. ReadInOrder(mod, lastId, bodies) /\ SoundModule(mod)
        BY <3>0, <3>5 DEF OrderInv, InOrder
      <4>3. ReadInOrder(Section(mod, s).mod, s.id, IF s.id = 10 THEN s.count ELSE bodies)
        BY <2>1, <3>2, <3>5, <4>2, SectionInOrder
      <4> QED
        BY <3>1, <3>2, <4>1, <4>3
    <3>6. CASE lastId = Unordered
      BY <3>1, <3>2, <3>6
    <3> QED
      BY <3>3, <3>4, <3>5, <3>6
  <2>2. CASE Section(mod, s).err # "ok"
    <3>1. Ended
      BY <1>1, <2>2 DEF LoadSection, Ends
    <3> QED
      BY <3>1, UnorderedIsNat
  <2> QED
    BY <2>1, <2>2
<1>2. ASSUME Held \/ Begun \/ Ended PROVE OrderInv'
  <2>1. CASE Held
    BY <1>0, <2>1 DEF OrderInv, InOrder
  <2>2. CASE Begun
    BY <1>0, <2>2, BlankInOrder, UnorderedIsNat DEF OrderInv, InOrder
  <2>3. CASE Ended
    BY <1>0, <2>3, UnorderedIsNat DEF OrderInv, InOrder
  <2> QED
    BY <1>2, <2>1, <2>2, <2>3
<1>3. ASSUME NEW e, LoadEnds(e) PROVE Ended
  BY <1>3 DEF LoadEnds, Ends
<1>4. ASSUME NEW file, Run(file) PROVE Begun
  BY <1>4 DEF Run, Begins
<1>5. ASSUME NEW over, RunFails(over) PROVE Held
  BY <1>5 DEF RunFails
<1>6. ASSUME NEW name, NEW nargs, NEW next, Calls(name, nargs, next) PROVE Held
  BY <1>6 DEF Calls, history
<1>7. ASSUME Sound PROVE Held
  BY <1>6, <1>7 DEF Sound, history
<1>8. ASSUME Frame PROVE Held \/ Begun
  <2>1. CASE failed # "ok"
    BY <1>8, <2>1 DEF Frame, history
  <2>2. CASE failed = "ok" /\ ~loaded
    BY <1>8, <2>2 DEF Frame, Begins
  <2>3. CASE failed = "ok" /\ loaded
    BY <1>6, <1>8, <2>3 DEF Frame
  <2> QED
    BY <2>1, <2>2, <2>3
<1>9. ASSUME GuestWrites \/ HfKey \/ GuestEnds PROVE Held
  BY <1>9 DEF GuestWrites, HfKey, GuestEnds, history
<1>10. ASSUME NEW code, PushKey(code) PROVE Held
  BY <1>10 DEF PushKey
<1>11. ASSUME UNCHANGED vars \/ Overrunning PROVE Held
  BY <1>11 DEF vars, history, Overrunning
<1>12. ASSUME NEW s \in Pool \cup {Builtin[i] : i \in DOMAIN Builtin}, LoadSection(s)
       PROVE  OrderInv'
  BY <1>0, <1>1, <1>12 DEF OrderInv, InOrder
<1> HIDE DEF Held, Begun, Ended
<1> QED
  BY <1>2, <1>3, <1>4, <1>5, <1>7, <1>8, <1>9, <1>10, <1>11, <1>12 DEF Next

(* A file whose sections come once each and in order, with any number of   *)
(* imports, functions and bodies, loads as it declares: functions 0 to n-1 *)
(* are its imports, and every other has the body that is its own or none.  *)
THEOREM AlwaysAsDeclared == Spec => []LoadsAsDeclared
<1>1. Init => OrderInv
  BY BlankSound, UnorderedIsNat DEF Init, OrderInv, InOrder, ModuleInv
<1>2. OrderInv => LoadsAsDeclared
  BY DEF OrderInv, ReadInOrder, LoadsAsDeclared
<1> QED
  BY <1>1, <1>2, NextOrder, PTL DEF Spec

----------------------------------------------------------------------------
(* The drawing calls (GuestDraw).                                          *)

Box == [x : Int, y : Int, w : Int, h : Int]
Corners == [x : Int, y : Int, x2 : Int, y2 : Int]

(* One direction of hf_fill_rect's clamp: within a window of a size, a     *)
(* position counted from its edge is in the clamped span iff it is in the  *)
(* span asked for.                                                         *)
LEMMA SpanClamps ==
  ASSUME NEW a \in Int, NEW n \in Int, NEW size \in Int, NEW p \in Int,
         n > 0, From(a) < size, Span(a, n, size) > 0
  PROVE  From(a) <= p /\ p < From(a) + Span(a, n, size)
           <=> 0 <= p /\ p < size /\ a <= p /\ p < a + n
BY DEF From, Span, Left

LEMMA SpanEmpty ==
  ASSUME NEW a \in Int, NEW n \in Int, NEW size \in Int, NEW p \in Int,
         n <= 0 \/ From(a) >= size \/ Span(a, n, size) <= 0
  PROVE  ~(0 <= p /\ p < size /\ a <= p /\ p < a + n)
BY DEF From, Span, Left

(* hf_fill_rect paints what was asked for where it lies in the window, and *)
(* nothing else: "a guest asking for a huge or negative rectangle simply   *)
(* draws less" -- and no less than that.                                   *)
THEOREM FillRectClips ==
  ASSUME NEW win \in Box, NEW b \in Box
  PROVE  Pixels(FillRect(win, b)) = Pixels(win) \cap Pixels(OnScreen(win, b))
<1> DEFINE w == Span(b.x, b.w, win.w)
           h == Span(b.y, b.h, win.h)
           out == \/ b.w <= 0 \/ b.h <= 0
                  \/ From(b.x) >= win.w \/ From(b.y) >= win.h
                  \/ w <= 0 \/ h <= 0
<1>1. ASSUME NEW p \in Int \X Int
      PROVE  p \in Pixels(FillRect(win, b))
               <=> p \in Pixels(win) /\ p \in Pixels(OnScreen(win, b))
  <2> DEFINE u == p[1] - win.x
             v == p[2] - win.y
  <2>1. /\ {b.x, b.y, b.w, b.h, win.x, win.y, win.w, win.h} \subseteq Int
        /\ u \in Int /\ v \in Int /\ p[1] \in Int /\ p[2] \in Int
    BY DEF Box
  <2>2. /\ w \in Int /\ h \in Int /\ From(b.x) \in Int /\ From(b.y) \in Int
    BY <2>1 DEF Span, Left, From
  <2>3. /\ OnScreen(win, b).x = win.x + b.x /\ OnScreen(win, b).y = win.y + b.y
        /\ OnScreen(win, b).w = b.w /\ OnScreen(win, b).h = b.h
    BY DEF OnScreen, Box
  <2>4. p \in Pixels(win) /\ p \in Pixels(OnScreen(win, b))
          <=> /\ 0 <= u /\ u < win.w /\ b.x <= u /\ u < b.x + b.w
              /\ 0 <= v /\ v < win.h /\ b.y <= v /\ v < b.y + b.h
    BY <2>1, <2>3 DEF Pixels
  <2>5. CASE out
    <3>1. p \notin Pixels(FillRect(win, b))
      BY <2>5 DEF FillRect, Pixels
    <3>2. b.w <= 0 \/ From(b.x) >= win.w \/ w <= 0
            => ~(0 <= u /\ u < win.w /\ b.x <= u /\ u < b.x + b.w)
      BY <2>1, SpanEmpty
    <3>3. b.h <= 0 \/ From(b.y) >= win.h \/ h <= 0
            => ~(0 <= v /\ v < win.h /\ b.y <= v /\ v < b.y + b.h)
      BY <2>1, SpanEmpty
    <3> QED BY <2>4, <2>5, <3>1, <3>2, <3>3
  <2>6. CASE ~out
    <3>0. b.w > 0 /\ b.h > 0 /\ From(b.x) < win.w /\ From(b.y) < win.h /\ w > 0 /\ h > 0
      BY <2>1, <2>2, <2>6
    <3>1. FillRect(win, b) = [x |-> win.x + From(b.x), y |-> win.y + From(b.y),
                              w |-> w, h |-> h]
      BY <2>6 DEF FillRect
    <3>2. p \in Pixels(FillRect(win, b))
            <=> /\ From(b.x) <= u /\ u < From(b.x) + w
                /\ From(b.y) <= v /\ v < From(b.y) + h
      BY <2>1, <2>2, <3>1 DEF Pixels
    <3>3. From(b.x) <= u /\ u < From(b.x) + w
            <=> 0 <= u /\ u < win.w /\ b.x <= u /\ u < b.x + b.w
      BY <2>1, <3>0, SpanClamps
    <3>4. From(b.y) <= v /\ v < From(b.y) + h
            <=> 0 <= v /\ v < win.h /\ b.y <= v /\ v < b.y + b.h
      BY <2>1, <3>0, SpanClamps
    <3> QED BY <2>4, <3>2, <3>3, <3>4
  <2> QED BY <2>5, <2>6
<1>2. Pixels(FillRect(win, b)) \subseteq Int \X Int /\ Pixels(win) \subseteq Int \X Int
  BY DEF Pixels
<1> QED BY <1>1, <1>2

(* With arguments and a window of 32-bit ints no sum or difference that    *)
(* hf_fill_rect computes leaves them, whatever a guest asks for.           *)
THEOREM FillRectStaysInt ==
  ASSUME NEW a \in Int, NEW n \in Int, NEW size \in Int,
         -IntMax - 1 <= a, a <= IntMax, 0 < n, n <= IntMax, size <= IntMax, From(a) < size
  PROVE  /\ -IntMax - 1 <= Left(a, n) /\ Left(a, n) <= IntMax
         /\ 0 <= size - From(a) /\ size - From(a) <= IntMax
BY IntAssumption DEF Left, From

(* What hf_draw_int puts on the screen lies in the window and in what is   *)
(* being painted, for a window and a clip rectangle no larger or further   *)
(* out than a screen of size d, and for every x and y a guest may ask for: *)
(* of the y so large that y + 16 is no int, whose test may let them pass,  *)
(* every row is off the screen, also of those that come round to below 0.  *)
THEOREM DrawIntInside ==
  ASSUME NEW win \in Box, NEW clip \in Corners, NEW d \in Nat, 2 * d + 16 <= IntMax,
         -d <= win.y, win.y <= d, win.h <= d, 0 <= clip.y, clip.y2 <= d,
         NEW x \in Int, NEW y \in Int, y <= IntMax, NEW n \in Nat,
         NEW fits \in MayFit(win, y)
  PROVE  \A p \in DrawInt(win, clip, x, y, n, fits) : Visible(win, clip, p)
<1> SUFFICES ASSUME NEW p \in DrawInt(win, clip, x, y, n, fits) PROVE Visible(win, clip, p)
  OBVIOUS
<1>1. /\ {win.x, win.y, win.w, win.h, clip.x, clip.y, clip.x2, clip.y2} \subseteq Int
      /\ IntMax \in Nat
  BY IntAssumption DEF Box, Corners
<1>2. 0 <= x /\ 0 <= y /\ fits
  BY <1>1 DEF DrawInt
<1>3. PICK i \in 0 .. n - 1, kx \in 0 .. 7, ky \in 0 .. 15 :
        /\ CharX(x, n, i) + 8 <= win.w
        /\ p = CellPixel(win, CharX(x, n, i), y, kx, ky)
        /\ Clipped(clip, p)
  BY <1>2 DEF DrawInt
<1>4. CharX(x, n, i) \in Int /\ CharX(x, n, i) >= 0
  BY <1>2, <1>3 DEF CharX
<1>5. p[1] = win.x + CharX(x, n, i) + kx /\ p[2] = Wrapped(win.y + y + ky)
  BY <1>3 DEF CellPixel
<1>6. win.x <= p[1] /\ p[1] < win.x + win.w
  BY <1>1, <1>3, <1>4, <1>5
<1>7. 0 <= p[2] /\ p[2] < d /\ clip.y <= p[2] /\ p[2] < clip.y2
      /\ clip.x <= p[1] /\ p[1] < clip.x2
  <2>1. clip.y <= p[2] /\ p[2] < clip.y2 /\ clip.x <= p[1] /\ p[1] < clip.x2
    BY <1>3 DEF Clipped
  <2>2. p[2] \in Int
    BY <1>1, <1>5 DEF Wrapped
  <2> QED
    BY <1>1, <2>1, <2>2
<1>8. p[2] = win.y + y + ky
  BY <1>1, <1>2, <1>5, <1>7 DEF Wrapped
<1>9. y + 16 <= IntMax
  BY <1>1, <1>2, <1>7, <1>8
<1>10. y + 16 <= win.h
  <2>1. ~(y + 16 > IntMax)
    BY <1>1, <1>9
  <2>2. MayFit(win, y) = {y + 16 <= win.h}
    BY <2>1, Zenon DEF MayFit
  <2>3. fits = (y + 16 <= win.h)
    BY <2>2, Zenon
  <2> QED
    BY <1>2, <2>3, Zenon
<1> QED
  BY <1>1, <1>2, <1>6, <1>7, <1>8, <1>10 DEF Visible

(* hf_draw_image paints in the window and in the clip rectangle only, at   *)
(* any position and scale.                                                 *)
THEOREM DrawImageInside ==
  ASSUME NEW win \in Box, NEW clip \in Corners, NEW im,
         NEW dx \in Int, NEW dy \in Int, NEW scale \in Int
  PROVE  \A p \in DrawImage(win, clip, im, dx, dy, scale) : Visible(win, clip, p)
BY DEF DrawImage

(* The squares of neighbouring pixels leave no gap. *)
LEMMA SquaresTile ==
  ASSUME NEW s \in 1 .. 8, NEW size \in Nat, NEW q \in 0 .. size * s - 1
  PROVE  \E i \in 0 .. size - 1, k \in 0 .. s - 1 : q = i * s + k
<1>1. \A d \in 1 .. 8 : d = 1 \/ d = 2 \/ d = 3 \/ d = 4 \/ d = 5 \/ d = 6 \/ d = 7 \/ d = 8
  OBVIOUS
<1> DEFINE i == q \div s
           k == q % s
<1>2. i \in Int /\ k \in 0 .. s - 1 /\ q = i * s + k
  <2>1. CASE s = 1 BY <2>1
  <2>2. CASE s = 2 BY <2>2
  <2>3. CASE s = 3 BY <2>3
  <2>4. CASE s = 4 BY <2>4
  <2>5. CASE s = 5 BY <2>5
  <2>6. CASE s = 6 BY <2>6
  <2>7. CASE s = 7 BY <2>7
  <2>8. CASE s = 8 BY <2>8
  <2> QED BY <1>1, <2>1, <2>2, <2>3, <2>4, <2>5, <2>6, <2>7, <2>8
<1>3. i \in 0 .. size - 1
  <2>1. CASE s = 1 BY <2>1
  <2>2. CASE s = 2 BY <2>2
  <2>3. CASE s = 3 BY <2>3
  <2>4. CASE s = 4 BY <2>4
  <2>5. CASE s = 5 BY <2>5
  <2>6. CASE s = 6 BY <2>6
  <2>7. CASE s = 7 BY <2>7
  <2>8. CASE s = 8 BY <2>8
  <2> QED BY <1>1, <2>1, <2>2, <2>3, <2>4, <2>5, <2>6, <2>7, <2>8
<1> QED BY <1>2, <1>3

(* ... and hf_draw_image paints everything of the enlarged picture that is *)
(* visible there, for any two ints a guest places it at.                   *)
THEOREM DrawImageWhole ==
  ASSUME NEW win \in Box, NEW clip \in Corners,
         NEW im \in [width : Nat, height : Nat],
         NEW dx \in Int, NEW dy \in Int, NEW scale \in Int,
         NEW p \in (-IntMax - 1 .. IntMax) \X (-IntMax - 1 .. IntMax), Visible(win, clip, p),
         p[1] - win.x - dx \in 0 .. im.width * Scale(scale) - 1,
         p[2] - win.y - dy \in 0 .. im.height * Scale(scale) - 1
  PROVE  p \in DrawImage(win, clip, im, dx, dy, scale)
<1> DEFINE s == Scale(scale)
<1>1. s \in 1 .. 8 BY DEF Scale
<1>2. im.width \in Nat /\ im.height \in Nat /\ win.x \in Int /\ win.y \in Int
  BY DEF Box
<1>3. PICK sx \in 0 .. im.width - 1, kx \in 0 .. s - 1 : p[1] - win.x - dx = sx * s + kx
  BY <1>1, <1>2, SquaresTile
<1>4. PICK sy \in 0 .. im.height - 1, ky \in 0 .. s - 1 : p[2] - win.y - dy = sy * s + ky
  BY <1>1, <1>2, SquaresTile
<1>5. p = PointAt(win, dx, dy, s, sx, sy, kx, ky)
  <2>1. sx * s \in Int /\ sy * s \in Int
    BY <1>1
  <2> HIDE DEF s
  <2>2. p[1] = win.x + dx + sx * s + kx /\ p[2] = win.y + dy + sy * s + ky
    BY <1>2, <1>3, <1>4, <2>1
  <2> QED BY <2>2, IntAssumption DEF PointAt, Wrapped
<1> QED BY <1>5 DEF DrawImage

(* Every pixel that is read lies in its picture's array, and what it holds *)
(* is an index of its picture's palette.                                   *)
THEOREM ImagesWhole ==
  \A k \in DOMAIN Images :
    LET im == Images[k] IN
    /\ \A sx \in 0 .. im.width - 1, sy \in 0 .. im.height - 1 :
         SourceAt(im, sx, sy) \in 0 .. im.art.pixels - 1
    /\ im.art.indexes \subseteq 0 .. im.art.palette - 1
<1>1. DOMAIN Images = 1 .. 5 BY DEF Images
<1>2. \A k \in 1 .. 5 : /\ Images[k].width = 200 /\ Images[k].height = 125
                        /\ Images[k].art.pixels = 25000
  BY DEF Images, Image0, Image1, Image2, Image3, Image4
<1>3. \A k \in 1 .. 5 : Images[k].art.indexes \subseteq 0 .. Images[k].art.palette - 1
  BY DEF Images, Image0, Image1, Image2, Image3, Image4
<1> QED BY <1>1, <1>2, <1>3 DEF SourceAt
=============================================================================

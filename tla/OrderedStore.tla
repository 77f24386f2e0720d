---------------------------- MODULE OrderedStore ----------------------------
(***************************************************************************)
(* What the character device "rbtdevice" promises its callers: a set of    *)
(* (key, data) objects with at most one object per key, written one object *)
(* at a time and read destructively from one of its two ends.              *)
(*                                                                         *)
(* Two corners of the promise come from the code, not from the idea of an  *)
(* ordered store: an object whose key is 0 cannot be read (the driver      *)
(* takes key 0 for "no object"), and a call may break the kernel's memory  *)
(* (an empty tree, exhausted memory), after which nothing is promised.     *)
(***************************************************************************)
EXTENDS Integers

CONSTANTS Keys,   \* the keys callers use, a set of C ints
          Datas   \* the data values callers use, 0 meaning "remove"

VARIABLES store,  \* the objects held
          end,    \* the end that Read takes from: "min" or "max"
          reply,  \* what the last call gave its caller
          broken  \* TRUE once a call dereferenced a wild pointer

storeVars == <<store, end, reply, broken>>

Object == [key : Keys, data : Datas]

SIZEOF_OBJECT == 8

\* A reply: the return value, and the object copied to the caller, if any.
Reply(ret, got) == [ret |-> ret, got |-> got]

\* The objects (at most one, as keys are unique) that stand at end e of S.
AtEnd(S, e) ==
  {o \in S : \A p \in S : IF e = "min" THEN o.key =< p.key ELSE o.key >= p.key}

Init ==
  /\ store = {}
  /\ end = "min"
  /\ reply = Reply(0, {})
  /\ broken = FALSE

\* Write replaces the object with the same key; data 0 only removes it.
Write(o) ==
  /\ ~broken
  /\ store' = {p \in store : p.key # o.key} \cup (IF o.data = 0 THEN {} ELSE {o})
  /\ reply' = Reply(0, {})
  /\ UNCHANGED <<end, broken>>

\* Read hands out and removes the object at the chosen end...
ReadTakes ==
  /\ ~broken
  /\ \E o \in AtEnd(store, end) :
       /\ o.key # 0
       /\ store' = store \ {o}
       /\ reply' = Reply(SIZEOF_OBJECT, {o})
  /\ UNCHANGED <<end, broken>>

\* ...or reports -1 when there is none, or when its key is 0.
ReadFails ==
  /\ ~broken
  /\ store = {} \/ \E o \in AtEnd(store, end) : o.key = 0
  /\ reply' = Reply(-1, {})
  /\ UNCHANGED <<store, end, broken>>

\* Choosing an end; any other request leaves the choice alone.
SetEnd ==
  /\ ~broken
  /\ end' \in {"min", "max"}
  /\ \E r \in {0, -1} : reply' = Reply(r, {})
  /\ UNCHANGED <<store, broken>>

\* Loading starts from an empty store read from its minimum.
Load ==
  /\ ~broken
  /\ store = {}
  /\ end' = "min"
  /\ UNCHANGED <<store, reply, broken>>

Unload ==
  /\ ~broken
  /\ store' = {}
  /\ UNCHANGED <<end, reply, broken>>

Break ==
  /\ ~broken
  /\ broken' = TRUE
  /\ UNCHANGED <<store, end, reply>>

Next ==
  \/ \E o \in Object : Write(o)
  \/ ReadTakes
  \/ ReadFails
  \/ SetEnd
  \/ Load
  \/ Unload
  \/ Break

Spec == Init /\ [][Next]_storeVars

=============================================================================

---------------------------- MODULE XattrAbstract ----------------------------
(***************************************************************************)
(* What the xattr core promises its callers, with no storage detail: each  *)
(* (owner, name) key maps to a value or to NULL (absent); a caller invokes *)
(* set() or deleteAll(), and when the call returns its effect is applied   *)
(* to the map in one atomic step, or nothing changed (the call failed).   *)
(*                                                                         *)
(*  - set(owner, name, value, flags), the decision table of spec 4.4:      *)
(*      absent  and XATTR_REPLACE           -> fails, nothing changes      *)
(*      present and XATTR_CREATE            -> fails, nothing changes      *)
(*      present and value = NULL            -> the attribute is removed    *)
(*      value # NULL otherwise              -> the attribute takes value   *)
(*      absent  and value = NULL            -> "value = NULL means delete":*)
(*                                             nothing to delete           *)
(*  - deleteAll(owner) removes every attribute of the owner.               *)
(***************************************************************************)
CONSTANTS Threads, Owners, Names, NULL, SetCalls, NoCall

VARIABLES attrs, call

vars == <<attrs, call>>

Keys == Owners \X Names

DeleteAllCalls == {[kind |-> "deleteall", owner |-> o] : o \in Owners}

Present(k) == attrs[k] # NULL

\* The successful effect of one call of set().
SetAttr(c) ==
    LET k == c.key IN
    \/ /\ ~Present(k)
       /\ c.val = NULL
       /\ UNCHANGED attrs
    \/ /\ Present(k)
       /\ "CREATE" \notin c.flags
       /\ c.val = NULL
       /\ attrs' = [attrs EXCEPT ![k] = NULL]
    \/ /\ c.val # NULL
       /\ IF Present(k) THEN "CREATE" \notin c.flags ELSE "REPLACE" \notin c.flags
       /\ attrs' = [attrs EXCEPT ![k] = c.val]

\* The successful effect of deleteAll(owner).
DeleteAll(o) ==
    attrs' = [k \in Keys |-> IF k[1] = o THEN NULL ELSE attrs[k]]

Invoke(t) ==
    /\ call[t] = NoCall
    /\ \E c \in SetCalls \cup DeleteAllCalls : call' = [call EXCEPT ![t] = c]
    /\ UNCHANGED attrs

\* The call returns, having taken effect or having failed.
Return(t) ==
    LET c == call[t] IN
    /\ c # NoCall
    /\ \/ c.kind = "set" /\ SetAttr(c)
       \/ c.kind = "deleteall" /\ DeleteAll(c.owner)
       \/ UNCHANGED attrs
    /\ call' = [call EXCEPT ![t] = NoCall]

\* A crash ends every call in flight; none of them took effect.
Crash ==
    /\ call' = [t \in Threads |-> NoCall]
    /\ UNCHANGED attrs

Init ==
    /\ attrs = [k \in Keys |-> NULL]
    /\ call = [t \in Threads |-> NoCall]

Next == (\E t \in Threads : Invoke(t) \/ Return(t)) \/ Crash

Spec == Init /\ [][Next]_vars
=============================================================================

---------------------------- MODULE OpaqueState ----------------------------
(***************************************************************************)
(* Opaque provider states: data a provider returned with a message and     *)
(* wants back only while the context it was made in still stands.          *)
(*                                                                         *)
(* A state is [id, profile, required, prefix]: the provider profile it is  *)
(* bound to, references of other messages it depends on, and a prefix of   *)
(* the conversation (empty: none), whose last message is its boundary.     *)
(* Payload codecs and the part a state follows are left out.               *)
(***************************************************************************)
EXTENDS CompileData

\* opaqueStateInventory with the order of the states of a message.
Origins(ms) ==
    UNION {{[state |-> ms[i].opaque[k], owner |-> ms[i].id, order |-> k] : k \in DOMAIN ms[i].opaque}
             : i \in DOMAIN ms}
StateIDs(origins) == {o.state.id : o \in origins}

\* validateOpaqueBinding.
BindingHolds(state, owner, refs) ==
    /\ \A r \in state.required : r.id # refs[owner].id /\ r \in Elements(refs)
    /\ \/ state.prefix = << >>
       \/ \E i \in 1..owner-1 :
            /\ refs[i].id = state.prefix[Len(state.prefix)].id
            /\ state.prefix = SubSeq(refs, 1, i)

\* validateOneOpaqueState and opaqueContextRefs.
StateHolds(ms, ownerID, state, profile) ==
    /\ state.profile = profile
    /\ \E i \in DOMAIN ms : ms[i].id = ownerID /\ BindingHolds(state, i, Refs(ms))

\* validateOpaqueOrdering: states stay with their message, in order.
OrderingHolds(ms, original) ==
    \A i \in DOMAIN ms :
        LET from(k) == {o \in original : o.state.id = ms[i].opaque[k].id /\ o.owner = ms[i].id}
            order(k) == (CHOOSE o \in from(k) : TRUE).order
        IN  /\ \A k \in DOMAIN ms[i].opaque : from(k) # {}
            /\ \A k \in 2..Len(ms[i].opaque) : order(k - 1) < order(k)

\* validateMissingOpaque: a state may be missing only where it would be dropped,
\* and then only if its context is gone.
MayBeMissing(ms, o, policy) ==
    /\ o.state.profile = policy.profile
    /\ policy.drop
    /\ o.owner \in IDs(ms) => ~StateHolds(ms, o.owner, o.state, policy.profile)

\* checkOpaqueInventory.
InventoryAccepted(ms, original, policy) ==
    /\ OrderingHolds(ms, original)
    /\ \A o \in original :
         IF o.state.id \in StateIDs(Origins(ms))
         THEN \E c \in Origins(ms) : c.state = o.state /\ c.owner = o.owner
         ELSE MayBeMissing(ms, o, policy)
    /\ \A c \in Origins(ms) : c.state.profile = policy.profile

\* invalidOpaqueStates.
InvalidStates(ms, policy) ==
    {c.state.id : c \in {c \in Origins(ms) : ~StateHolds(ms, c.owner, c.state, policy.profile)}}

\* dropOpaqueStates.
DropStates(s, gone) ==
    [g \in Segments |-> [i \in DOMAIN s[g] |->
        [s[g][i] EXCEPT !.opaque = SelectSeq(@, LAMBDA st : st.id \notin gone)]]]
=============================================================================

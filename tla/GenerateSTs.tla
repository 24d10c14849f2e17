------------------------------ MODULE GenerateSTs ------------------------------
(****************************************************************************)
(* The middle of MitigatePass::runOnFunction: from what the analyses say of *)
(* a function (module Instructions), the STs that the min-cut has to        *)
(* separate.  Before it comes MemIntrinsicPass, which decides which copies  *)
(* are calls.                                                               *)
(*                                                                          *)
(* `sources_map` is a cache of a function of the unchanged function, and is *)
(* not kept.  The vector of STs is a set.                                   *)
(****************************************************************************)
EXTENDS Instructions

CONSTANTS Functions,  \* records [kind, succ, ops, ptr, ca, glob, direct, secret, taints]
          Options     \* sets of options

STKinds == <<"ncas_xmit", "ncas_ctrl", "ncal_xmit", "ncal_glob", "entry_xmit",
             "load_xmit", "call_xmit">>
Flags == {STKinds[k] : k \in DOMAIN STKinds} \cup {"mem_intrinsic", "expand", "ncas_all"}

VARIABLES f, options,
          sts,
          k,       \* the kind of STs that is looked at: STKinds[k]; 0 before
          todo,    \* the instructions that its loop has still to visit
          failed   \* the instruction for which an assertion has failed, or 0

vars == <<f, options, sts, k, todo, failed>>

-----------------------------------------------------------------------------
IsFunction(g) ==
    LET I      == DOMAIN g.kind
        Values == {Arg} \cup Of(g, {"load", "call", "intr"} \cup Computing)
    IN
    /\ DOMAIN g = {"kind", "succ", "ops", "ptr", "ca", "glob", "direct", "secret", "taints"}
    /\ g.kind \in Seq(Kinds) /\ 1 \in I
    /\ g.succ \in [I -> SUBSET I] /\ g.ops \in [I -> SUBSET (I \cup {Arg})]
    /\ g.ptr \in [I -> SUBSET (I \cup {Arg})]
    /\ g.ca \subseteq Of(g, {"load", "store"}) /\ g.glob \subseteq Of(g, {"store"})
    /\ g.direct \subseteq Of(g, {"call"}) /\ g.secret \subseteq I
    /\ g.taints \in [I -> SUBSET (Of(g, {"load"}) \ g.ca)]
    /\ I \subseteq {1} \cup Reach(CFG(g), {1})
    /\ \A i \in I : \A y, z \in g.succ[i] : y = z \/ i \in Of(g, {"call", "term"})
    /\ \A i \in I : Operands(g, i) \subseteq Values
    /\ \A s \in Of(g, {"store"}) : \A v, w \in g.ops[s] : v = w
    \* assert(ST.secret(&LI)) for the loads from non-constant addresses.
    /\ \A l \in Of(g, {"load"}) \ g.ca : l \in g.taints[l]
    \* NCALs flow along all operands.  Being secret does not: NonspeculativeTaint may
    \* take what vector and aggregate instructions make of a secret to be public.
    /\ \A i \in Of(g, Computing) : \A v \in Operands(g, i) \ {Arg} :
          g.taints[v] \subseteq g.taints[i]

FunctionsAssumption == \A g \in Functions : IsFunction(g)
OptionsAssumption == Options \subseteq SUBSET Flags

-----------------------------------------------------------------------------
(* The sets that the STs are made of.                                       *)

\* Secrets that the value of a store is computed from, other than what is read
\* through the same pointer.
Incoming(g, s) ==
    {v \in get_incoming_loads(g, g.ops[s]) :
        ~(v # Arg /\ g.kind[v] = "load" /\ g.ptr[v] = g.ptr[s])}

NCAStores(g) == {s \in Of(g, {"store"}) \ g.ca : g.ops[s] # {}}

\* "mismatch in nt-secret labels": the value is computed from a secret and is taken to
\* be public.  The pass warns of such a store and goes on.
Mismatched(g) ==
    {s \in NCAStores(g) :
        Incoming(g, s) \cap g.secret # {} /\ g.ops[s] \cap (g.secret \cup {Arg}) = {}}

\* nca_nt_sec_stores and nca_t_sec_stores.
SecretStores(g) ==
    {s \in NCAStores(g) \ Mismatched(g) :
        /\ g.ops[s] # {Arg}
        /\ \/ Incoming(g, s) \cap g.secret # {}
           \/ /\ Incoming(g, s) \cap g.secret = {}
              /\ \E v \in Incoming(g, s) : ST_secret(g, v)
              /\ \A v \in g.ops[s] : ST_secret(g, v)}

ncas ==
    SecretStores(f) \cup Of(f, {"memcpy"})
        \cup (IF "ncas_all" \in options THEN NCAStores(f) ELSE {})

ctrls(g) == Calls(g) \cup Of(g, {"ret"})

\* Transmitters with a sensitive operand that is not a constant.
Transmitters(g) == {t \in DOMAIN g.kind : get_transmitter_sensitive_operands(g, t) # {}}

TransmitterNCALs(g, t) ==
    UNION {g.taints[o] : o \in get_transmitter_sensitive_operands(g, t) \ {Arg}}

\* Plausible mistakes, not part of the specification.
Guards_AllOut(g, reach) == {t \in reach \cap Of(g, {"term"}) : g.succ[t] \cap reach = {}}

\* The branches that decide whether an access is reached.
Guards(g, reach) == {t \in reach \cap Of(g, {"term"}) : g.succ[t] \ reach # {}}

\* Where the speculation that makes the address of i wrong may have begun.
getSourcesForNCAAccess(g, i) ==
    LET reach   == Reach(Reversed(CFG(g)), {i})
        address == get_incoming_loads(g, g.ptr[i])
    IN  reach \cap ((address \ {Arg}) \cup (IF Arg \in address THEN {1} ELSE {})
                        \cup Guards(g, reach) \cup Calls(g))

\* What assertions make of that: the entry has no sources, and an instruction
\* without pointer operand has a null pointer for its address.
SourcesFail(i) == i = 1 \/ f.kind[i] = "memcpy"

-----------------------------------------------------------------------------
(* The kinds of STs, one after the other.                                   *)

Loop(kind) ==
    CASE kind = "ncas_xmit" -> ncas
      [] kind = "ncal_xmit" -> {t \in DOMAIN f.kind : TransmitterNCALs(f, t) # {}}
      [] kind = "load_xmit" -> DOMAIN f.kind
      [] OTHER -> {1}

Init ==
    /\ f \in Functions /\ options \in Options
    /\ sts = {} /\ k = 0 /\ failed = 0
    /\ todo = IF "mem_intrinsic" \in options THEN Of(f, {"memcpy_n", "memcpy"}) ELSE {}

\* MemIntrinsicPass: a copy of constant length is inlined.
handleMemIntrinsic(i) ==
    /\ k = 0 /\ i \in todo
    /\ f' = [f EXCEPT !.kind[i] = "memcpy"]
    /\ todo' = todo \ {i}
    /\ UNCHANGED <<options, sts, k, failed>>

At(kind) ==
    k \in DOMAIN STKinds /\ STKinds[k] = kind /\ kind \in options /\ failed = 0

\* The end of a loop, or a kind that is not enabled.
NextKind ==
    /\ k \in {0} \cup DOMAIN STKinds /\ failed = 0
    /\ todo = {} \/ (k # 0 /\ STKinds[k] \notin options)
    /\ k' = k + 1
    /\ todo' = IF k' \in DOMAIN STKinds THEN Loop(STKinds[k']) ELSE {}
    /\ UNCHANGED <<f, options, sts, failed>>

Add(i, new) ==
    /\ sts' = sts \cup new
    /\ todo' = todo \ {i}
    /\ UNCHANGED <<f, options, k, failed>>

\* A store, and what may give away what a load after it reads.
NcasXmit(s) ==
    /\ At("ncas_xmit") /\ s \in todo
    /\ "expand" \in options => ~SourcesFail(s)
    /\ LET seen  == {s} \cup Reach(CFG(f), {s})
           xmits == {t \in seen :
                        get_incoming_loads(f, get_transmitter_sensitive_operands(f, t))
                            \cap Of(f, {"load"}) \cap seen # {}}
       IN  Add(s, {IF "expand" \in options
                     THEN <<getSourcesForNCAAccess(f, s), {s}, xmits>>
                     ELSE <<{s}, xmits>>})

\* The entry is not excepted here.
NcasXmitFails(s) ==
    /\ At("ncas_xmit") /\ s \in todo
    /\ "expand" \in options /\ SourcesFail(s)
    /\ failed' = s
    /\ UNCHANGED <<f, options, sts, k, todo>>

NcasCtrl(i) ==
    At("ncas_ctrl") /\ i \in todo /\ Add(i, {<<ncas, ctrls(f)>>})

NcalXmit(t) ==
    /\ At("ncal_xmit") /\ t \in todo
    /\ Add(t, {IF "expand" \in options /\ l # 1
                 THEN <<getSourcesForNCAAccess(f, l), {l}, {t}>>
                 ELSE <<{l}, {t}>> : l \in TransmitterNCALs(f, t)})

\* Speculative secrets that are put into global variables.
NcalGlob(i) ==
    /\ At("ncal_glob") /\ i \in todo
    /\ LET leaking == {s \in f.glob \cap f.ca :
                          \E v \in f.ops[s] : v \notin f.secret /\ ST_secret(f, v)}
       IN  Add(i, UNION {{<<{l}, {s}>> : l \in UNION {f.taints[v] : v \in f.ops[s]}} :
                            s \in leaking})

EntryXmit(i) ==
    /\ At("entry_xmit") /\ i \in todo
    /\ LET calls  == Calls(f)
           before == ({1} \cup Reach({e \in CFG(f) : e[1] \notin calls}, {1})) \ calls
           any    == calls \cup Of(f, {"intr", "memcpy"})
           after  == any \cup Reach(CFG(f), any)
           reload == {t \in before :
                         get_incoming_loads(f, get_transmitter_sensitive_operands(f, t))
                             \cap Of(f, {"load"}) \cap f.ca # {}}
       IN  Add(i, {<<{1}, reload \cup (after \cap Transmitters(f))>>})

\* The predecessors of a return or an indirect call, or the entry.
Before(i) == IF predecessors(f, i) = {} THEN {1} ELSE predecessors(f, i)

CallSTs == {<<Calls(f), Transmitters(f)>>}

LoadXmit(t) ==
    /\ At("load_xmit") /\ t \in todo
    /\ Add(t, {<<Of(f, {"load"}) \cap
                     get_incoming_loads(f, get_transmitter_sensitive_operands(f, t)), {t}>>}
              \cup CallSTs
              \cup {<<Before(i), {i}>> : i \in ctrls(f) \ f.direct})

CallXmit(i) ==
    At("call_xmit") /\ i \in todo /\ Add(i, CallSTs)

Done == (failed # 0 \/ k > Len(STKinds)) /\ UNCHANGED vars

Next ==
    \/ \E i \in DOMAIN f.kind : handleMemIntrinsic(i)
    \/ \E i \in DOMAIN f.kind : NcasXmit(i)
    \/ \E i \in DOMAIN f.kind : NcasXmitFails(i)
    \/ \E i \in DOMAIN f.kind : NcasCtrl(i)
    \/ \E i \in DOMAIN f.kind : NcalXmit(i)
    \/ \E i \in DOMAIN f.kind : NcalGlob(i)
    \/ \E i \in DOMAIN f.kind : EntryXmit(i)
    \/ \E i \in DOMAIN f.kind : LoadXmit(i)
    \/ \E i \in DOMAIN f.kind : CallXmit(i)
    \/ NextKind
    \/ Done

Spec == Init /\ [][Next]_vars

-----------------------------------------------------------------------------
(* Properties.                                                              *)

\* A walk of E that visits the sets of st one after the other.
Realised(E, st) ==
    LET at[n \in DOMAIN st] == IF n = 1 THEN st[1] ELSE Reach(E, at[n - 1]) \cap st[n]
    IN  at[Len(st)] # {}

\* There is a way to i that meets none of the loads and calls its address is computed
\* from: a phi makes a constant of the address there.
ConstantOnSomeWay(i) ==
    LET address == get_incoming_loads(f, f.ptr[i])
    IN  Arg \notin address /\ i \in Reach({e \in CFG(f) : e[1] \notin address}, {1})

\* Where wrong speculation may begin on the way to i: at the entry, unless the address
\* may be a constant; after a call, whose return may be mispredicted; at a branch one
\* way out of which never leads to i.  Not expanded, every access is taken to be wrong
\* by itself.
Starts(i) ==
    {x \in DOMAIN f.kind :
        \/ x = 1 /\ ~ConstantOnSomeWay(i)
        \/ x \in Calls(f)
        \/ \E y, z \in f.succ[x] : /\ i = y \/ i \in Reach(CFG(f), {y})
                                   /\ i # z /\ i \notin Reach(CFG(f), {z})}

Wrong(i) == IF "expand" \in options /\ i # 1 THEN {<<{x}, {i}>> : x \in Starts(i)} ELSE {<<{i}>>}

\* The stores of secrets that are left alone with a warning.
Warned == IF "ncas_all" \in options THEN {} ELSE Mismatched(f)

\* Writes to what may be a wrong address of what is computed from a secret that was
\* not read through the same pointer.
Overwrites ==
    Of(f, {"memcpy"}) \cup
    {s \in Of(f, {"store"}) \ (f.ca \cup Warned) :
        \E v \in Incoming(f, s) : v \in f.secret \/ ST_secret(f, v)}

LoadsGivenAway(t) ==
    Of(f, {"load"}) \cap get_incoming_loads(f, get_transmitter_sensitive_operands(f, t))

\* What must not happen in one speculative window: a load from a wrong address,
\* then an instruction that gives its value away; or a store of a secret to a
\* wrong address, and then a load whose value is given away, or a call or return
\* that may read what was overwritten.
NcalLeaks ==
    UNION {{w \o <<{t}>> : w \in UNION {Wrong(l) : l \in TransmitterNCALs(f, t)}} :
              t \in DOMAIN f.kind}
NcasLeaks ==
    UNION {UNION {{w \o <<{l}, {t}>> : w \in UNION {Wrong(s) : s \in Overwrites}} :
                     l \in LoadsGivenAway(t)} :
              t \in DOMAIN f.kind}
CtrlLeaks == {<<{s}, {c}>> : s \in Overwrites, c \in ctrls(f)}

Leaks ==
    (IF "ncal_xmit" \in options THEN NcalLeaks ELSE {})
        \cup (IF "ncas_xmit" \in options THEN NcasLeaks ELSE {})
        \cup (IF "ncas_ctrl" \in options THEN CtrlLeaks ELSE {})

\* The STs ask for enough: however the edges that separate all of them are
\* chosen, no walk without such an edge is a leak, except through a store that the
\* pass has warned of.
CutsStopLeaks ==
    k > Len(STKinds) =>
        \A cut \in SUBSET CFG(f) :
            (\A st \in sts : ~Realised(CFG(f) \ cut, st))
                => \A leak \in Leaks : ~Realised(CFG(f) \ cut, leak)

\* "I cannot be the entrypoint instruction of the function": getSourcesForNCAAccess
\* is never asked for the sources of the first instruction.
SourcesAsserted == failed # 1

=============================================================================

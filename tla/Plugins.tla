------------------------------- MODULE Plugins -------------------------------
(***************************************************************************)
(* The registry of the plugins of a process (class LLplugin), and the      *)
(* operations on one data object that pass through it: the user registers  *)
(* plugins and binds them to nodes, a put() calls them and stores which    *)
(* plugins can read its data back, a get() binds these for its duration.   *)
(*                                                                         *)
(* A key of the map boundPlugins is a node of the data object, or All for  *)
(* "<object>/*".  The nodes of ids_properties/plugins are one key here,    *)
(* Provenance: the manager binds all of them at once.                      *)
(***************************************************************************)
EXTENDS Integers, Sequences, SequencesExt

CONSTANTS
  Order,       \* the keys, in the order of the map
  All, Provenance,
  Names,       \* plugins
  None,
  NodeOperation,  \* what node_operation() of a plugin answers for a key, or for no path
  Readback,    \* [name, index] a plugin gives for readback; the name may be None
  Broken,      \* plugins whose library does not define create() and destroy()
  Mismatched,  \* plugins that are not of the version a file asks for
  Rebind,      \* whether bindings change after nodes took over those of All
  OwnReadback, \* whether the user registers plugins that are meant for readback
  KeepUnbound, \* whether plugins are unregistered without being bound
  MaxOps       \* bound on the operations

Keys == Range(Order)
Fields == Keys \ {All, Provenance}
Operations == {"GET_ONLY", "PUT_ONLY", "PUT_AND_GET"}

ASSUME KeysAssumption ==
  /\ Order \in Seq(Keys) /\ IsInjective(Order)
  /\ {All, Provenance} \subseteq Keys /\ All # Provenance
  /\ None \notin Keys \cup Names
ASSUME PluginsAssumption ==
  /\ NodeOperation \in [Names -> [Keys \cup {None} -> Operations]]
  /\ Readback \in [Names -> [name : Names \cup {None}, index : Nat]]
  /\ Broken \cup Mismatched \subseteq Names
ASSUME SwitchAssumption == {Rebind, OwnReadback, KeepUnbound} \subseteq BOOLEAN
ASSUME BoundAssumption == MaxOps \in Nat

ReadbackNames == {Readback[p].name : p \in Names} \ {None}

\* The elements of s that are in S, in their order.
Among(s, S) ==
  LET kept[n \in 0..Len(s)] ==
        IF n = 0 THEN << >>
        ELSE IF s[n] \in S THEN Append(kept[n - 1], s[n]) ELSE kept[n - 1]
  IN  kept[Len(s)]

Without(s, p) == Among(s, Names \ {p})

VARIABLES
  registry,  \* the statics: llpluginsStore, boundPlugins, readbackPlugins
  getOperationPath,
  stored,    \* the readback plugins in the file: entries in the order of the map
  op,        \* the operation under way
  called,    \* the plugins called for the last node read or written
  mine,      \* history: what the user registered
  wanted,    \* history: what the user bound, until an unbinding found it
  wrote,     \* history: the readback plugins and indices of each node at the put()
  ops        \* number of operations

vars == <<registry, getOperationPath, stored, op, called, mine, wanted, wrote, ops>>

Unbound == [k \in Keys |-> << >>]
NoOp == [what |-> "none", begun |-> {}, readback |-> "no"]
NoCall == [what |-> "none", node |-> None, by |-> << >>]

Init ==
  /\ registry = [store |-> [p \in Names |-> "absent"], bound |-> Unbound,
                 readback |-> << >>, ok |-> TRUE]
  /\ getOperationPath = None
  /\ stored = << >>
  /\ op = NoOp /\ called = NoCall
  /\ mine = {} /\ wanted = Unbound /\ wrote = [k \in Keys |-> {}]
  /\ ops = 0

-------------------------------------------------------------------------------
(***************************************************************************)
(* The operations of LLplugin on the registry.                             *)
(***************************************************************************)

\* registerPlugin() enters the plugin before it looks for the symbols.
Registered(r, p) ==
  [r EXCEPT !.store[p] = IF p \in Broken THEN "empty" ELSE "loaded",
            !.ok = p \notin Broken]

\* Fault: the plugin is destroyed, and stays bound to all but the first of its nodes.
UnregisteredOnce(r, p) ==
  LET at == {k \in Keys : Contains(r.bound[k], p)}
  IN  [r EXCEPT !.store[p] = IF at # {} /\ @ = "loaded" THEN "absent" ELSE @,
                !.bound = [k \in Keys |->
                             IF k = CHOOSE k2 \in at : TRUE THEN Without(@[k], p) ELSE @[k]]]

\* unregisterPlugin() destroys the plugin where it finds a node bound to it.
Unregistered(r, p) ==
  LET at == {k \in Keys : Contains(r.bound[k], p)}
  IN  [r EXCEPT !.store[p] = IF at # {} /\ @ = "loaded" THEN "absent" ELSE @,
                !.bound = [k \in Keys |-> Without(@[k], p)]]

\* bind_plugin(): behind those already there.
BoundTo(r, p, k) == [r EXCEPT !.bound[k] = IF Contains(@, p) THEN @ ELSE Append(@, p)]

(***************************************************************************)
(* getBoundPlugins(): a node that nothing is bound to takes over what is   *)
(* bound to all nodes, and keeps it.                                       *)
(***************************************************************************)
Resolved(bound, k) == IF bound[k] # << >> THEN bound[k] ELSE bound[All]

Materialised == \E k \in Fields : registry.bound[k] # wanted[k]

-------------------------------------------------------------------------------
(***************************************************************************)
(* What the user does between the operations.                              *)
(***************************************************************************)
Idle == op.what = "none"

Register(p) ==
  /\ Idle /\ registry.store[p] = "absent"
  /\ OwnReadback \/ p \notin ReadbackNames
  /\ registry' = [Registered(registry, p) EXCEPT !.ok = TRUE]
  /\ mine' = mine \cup {p}
  /\ UNCHANGED <<getOperationPath, stored, op, called, wanted, wrote, ops>>

Unregister(p) ==
  /\ Idle /\ registry.store[p] # "absent" /\ p \in mine
  /\ KeepUnbound \/ \E k \in Keys : Contains(registry.bound[k], p)
  /\ registry' = Unregistered(registry, p)
  /\ mine' = mine \ {p}
  /\ wanted' = [k \in Keys |-> Without(wanted[k], p)]
  /\ UNCHANGED <<getOperationPath, stored, op, called, wrote, ops>>

\* How the user may write a node: as its key, or as a fragment - with "#", without
\* an occurrence, with "(:)" - that bindPlugin() brings to the form of the key.
Spellings == {"key", "fragment"}

\* An error when the plugin is bound to the node already, or not registered; the
\* same for either spelling.
Bind(p, k) ==
  /\ Idle /\ p \in mine /\ registry.store[p] # "absent"
  /\ ~Contains(registry.bound[k], p)
  /\ Rebind \/ ~Materialised
  /\ registry' = BoundTo(registry, p, k)
  /\ wanted' = [wanted EXCEPT ![k] = Append(@, p)]
  /\ UNCHANGED <<getOperationPath, stored, op, called, mine, wrote, ops>>

\* unbindPlugin() looks for a key as the path is written: it does not find the
\* node of a fragment, says so on the terminal and leaves the plugin bound.
Unbind(p, k, spelling) ==
  /\ Idle /\ Contains(wanted[k], p)
  /\ Rebind \/ ~Materialised
  /\ IF spelling = "key"
     THEN /\ registry' = [registry EXCEPT !.bound[k] = Without(@, p)]
          /\ wanted' = [wanted EXCEPT ![k] = Without(@, p)]
     ELSE UNCHANGED <<registry, wanted>>
  /\ UNCHANGED <<getOperationPath, stored, op, called, mine, wrote, ops>>

-------------------------------------------------------------------------------
(***************************************************************************)
(* getBoundPlugins() of the data object: the plugins of the first of its   *)
(* nodes in the map.  Only these are told of the beginning of an operation.*)
(***************************************************************************)
OfObject(bound) ==
  LET keys == Among(Order, {k \in Keys : bound[k] # << >>})
  IN  IF keys = << >> THEN {} ELSE Range(bound[Head(keys)])

\* A put() deletes the data of the last one, and what can read it back.
Begin(what) ==
  /\ Idle /\ ops < MaxOps
  /\ op' = [what |-> what, begun |-> OfObject(registry.bound), readback |-> "no"]
  /\ called' = NoCall
  /\ ops' = ops + 1
  /\ IF what = "put"
     THEN stored' = << >> /\ wrote' = [k \in Keys |-> {}]
     ELSE UNCHANGED <<stored, wrote>>
  /\ UNCHANGED <<registry, getOperationPath, mine, wanted>>

(***************************************************************************)
(* al_read_data() and al_write_data() of a node.  Whether a plugin is to   *)
(* be called is asked of it for getOperationPath, not for the node.        *)
(***************************************************************************)
Excluded(what) == IF what = "get" THEN "PUT_ONLY" ELSE "GET_ONLY"

Transfer(f) ==
  LET plugins == Resolved(registry.bound, f)
  IN  /\ \/ op.what = "put"
         \/ op.what = "get" /\ op.readback = "bound"
      /\ registry' = [registry EXCEPT !.bound[f] = plugins]
      /\ called' = [what |-> op.what, node |-> f,
                    by |-> Among(plugins, {p \in Names :
                             NodeOperation[p][getOperationPath] # Excluded(op.what)})]
      /\ UNCHANGED <<getOperationPath, stored, op, mine, wanted, wrote, ops>>

-------------------------------------------------------------------------------
(***************************************************************************)
(* write_plugins_metadata(), at the end of a put(): for every key that has *)
(* a plugin contributing to it, the names to read it back with, the last   *)
(* to be applied first.  An index out of range or given twice is an error  *)
(* that ends the put().                                                    *)
(***************************************************************************)
PutPlugins(k) ==
  Among(registry.bound[k], {p \in Names : NodeOperation[p][k] # "GET_ONLY"})

\* The readback plugins of a key: those that have a name.
Infos(k) ==
  Among([i \in 1..Len(PutPlugins(k)) |-> Readback[PutPlugins(k)[i]]],
        [name : Names, index : Nat])

ValidInfos(k) ==
  \A i, j \in 1..Len(Infos(k)) :
    /\ Infos(k)[i].index < Len(PutPlugins(k))
    /\ i # j => Infos(k)[i].index # Infos(k)[j].index

\* Their names, from the highest index down; no index is there twice.
Sorted(k) ==
  LET N == Len(PutPlugins(k))
      at(i) == {j \in 1..Len(Infos(k)) : Infos(k)[j].index = i}
      names[n \in 0..N] ==
        IF n = 0 THEN << >>
        ELSE IF at(N - n) = {} THEN names[n - 1]
        ELSE Append(names[n - 1], Infos(k)[CHOOSE j \in at(N - n) : TRUE].name)
  IN  names[N]

\* Fault: the names are stored in the order of application.
EntryAscending(k) == [node |-> k, plugins |-> Reverse(Sorted(k))]

Entry(k) == [node |-> k, plugins |-> Sorted(k)]

EndPut ==
  LET keys == Among(Order, {k \in Keys : PutPlugins(k) # << >>})
      bad == {i \in 1..Len(keys) : ~ValidInfos(keys[i])}
      n == IF bad = {} THEN Len(keys) ELSE Min(bad) - 1
  IN  /\ op.what = "put"
      /\ stored' = [i \in 1..n |-> Entry(keys[i])]
      /\ wrote' = [k \in Keys |->
                     IF \E i \in 1..n : keys[i] = k THEN Range(Infos(k)) ELSE {}]
      /\ op' = NoOp
      /\ UNCHANGED <<registry, getOperationPath, called, mine, wanted, ops>>

-------------------------------------------------------------------------------
(***************************************************************************)
(* bind_readback_plugins(), before the nodes are read.  The plugins of an  *)
(* entry are taken from the last; an error leaves those before it bound.   *)
(***************************************************************************)
BindReadbackPlugin(r, k, p) ==
  LET s == IF r.store[p] # "absent" THEN r
           ELSE IF p \in Broken THEN Registered(r, p)
           ELSE [Registered(r, p) EXCEPT !.readback = Append(@, p)]
  IN  IF ~r.ok THEN r
      ELSE IF ~s.ok \/ Contains(s.bound[k], p) THEN s
      ELSE [BoundTo(s, p, k) EXCEPT
              !.ok = NodeOperation[p][k] # "PUT_ONLY" /\ p \notin Mismatched]

BindEntry(r, entry) ==
  LET N == Len(entry.plugins)
      after[n \in 0..N] ==
        IF n = 0 THEN r
        ELSE BindReadbackPlugin(after[n - 1], entry.node, entry.plugins[N + 1 - n])
  IN  after[N]

BindEntries(r, entries) ==
  LET after[n \in 0..Len(entries)] ==
        IF n = 0 THEN r ELSE BindEntry(after[n - 1], entries[n])
  IN  after[Len(entries)]

GetPlugins(bound, k) ==
  Among(bound[k], {p \in Names : NodeOperation[p][k] # "PUT_ONLY"})

\* Every plugin that contributes to a get() is bound to the provenance nodes.
BoundToProvenance(r, plugins) ==
  LET N == Len(plugins)
      after[n \in 0..N] ==
        IF n = 0 THEN r ELSE BoundTo(after[n - 1], plugins[N + 1 - n], Provenance)
  IN  after[N]

BindProvenance(r) ==
  LET after[n \in 0..Len(Order)] ==
        IF n = 0 THEN r
        ELSE IF Order[n] = Provenance THEN after[n - 1]
        ELSE BoundToProvenance(after[n - 1], GetPlugins(after[n - 1].bound, Order[n]))
  IN  after[Len(Order)]

BindReadback ==
  LET r == BindEntries(registry, stored)
  IN  /\ op.what = "get" /\ op.readback = "no"
      /\ registry' = [(IF r.ok THEN BindProvenance(r) ELSE r) EXCEPT !.ok = TRUE]
      /\ op' = [op EXCEPT !.readback = IF r.ok THEN "bound" ELSE "failed"]
      /\ UNCHANGED <<getOperationPath, stored, called, mine, wanted, wrote, ops>>

\* The provenance of key k is read: its path is remembered.
ReadProvenance(k) ==
  LET plugins == Resolved(registry.bound, Provenance)
  IN  /\ op.what = "get" /\ op.readback = "bound"
      /\ plugins # << >>
      /\ k # Provenance /\ GetPlugins(registry.bound, k) # << >>
      /\ getOperationPath' = k
      /\ registry' = [registry EXCEPT !.bound[Provenance] = plugins]
      /\ UNCHANGED <<stored, op, called, mine, wanted, wrote, ops>>

\* Fault: the plugins stay bound to the provenance nodes.
UnregisteredFromNodes(r, p) ==
  [Unregistered(r, p) EXCEPT !.bound[Provenance] = r.bound[Provenance]]

\* One of the plugins that bind_readback_plugins() registered.
WithoutReadback(r, p) == Unregistered(r, p)

UnboundAll(r) ==
  LET after[n \in 0..Len(r.readback)] ==
        IF n = 0 THEN r ELSE WithoutReadback(after[n - 1], r.readback[n])
  IN  after[Len(r.readback)]

\* unbind_readback_plugins(), after the nodes are read.
UnbindReadback ==
  /\ op.what = "get" /\ op.readback = "bound"
  /\ registry' = [UnboundAll(registry) EXCEPT !.readback = << >>]
  /\ op' = [op EXCEPT !.readback = "unbound"]
  /\ UNCHANGED <<getOperationPath, stored, called, mine, wanted, wrote, ops>>

EndGet ==
  /\ op.what = "get" /\ op.readback \in {"failed", "unbound"}
  /\ op' = NoOp
  /\ UNCHANGED <<registry, getOperationPath, stored, called, mine, wanted, wrote, ops>>

-------------------------------------------------------------------------------
Next ==
  \/ \E p \in Names : Register(p) \/ Unregister(p)
  \/ \E p \in Names, k \in Fields \cup {All} : Bind(p, k)
  \/ \E p \in Names, k \in Fields \cup {All}, spelling \in Spellings : Unbind(p, k, spelling)
  \/ \E what \in {"get", "put"} : Begin(what)
  \/ \E f \in Fields : Transfer(f)
  \/ \E k \in Keys : ReadProvenance(k)
  \/ EndPut \/ BindReadback \/ UnbindReadback \/ EndGet

Spec == Init /\ [][Next]_vars

-------------------------------------------------------------------------------
\* Types of the variables.  A plugin is bound to a node once.
TypeOK ==
  /\ registry.store \in [Names -> {"absent", "empty", "loaded"}]
  /\ \A k \in Keys : /\ Range(registry.bound[k]) \subseteq Names
                     /\ IsInjective(registry.bound[k])
  /\ Range(registry.readback) \subseteq Names /\ registry.ok
  /\ getOperationPath \in Keys \cup {None}
  /\ \A i \in DOMAIN stored : stored[i].node \in Keys /\ Range(stored[i].plugins) \subseteq Names
  /\ op.what \in {"none", "get", "put"} /\ op.begun \subseteq Names
  /\ op.readback \in {"no", "bound", "failed", "unbound"}
  /\ Range(called.by) \subseteq Names
  /\ mine \subseteq Names /\ ops \in 0..MaxOps

(***************************************************************************)
(* Every plugin that a node is bound to is in the store with an instance:  *)
(* no operation reaches a plugin that was destroyed, through unregistering *)
(* of the user and of a get(), and nodes that took bindings over.          *)
(***************************************************************************)
BoundAreLoaded ==
  \A k \in Keys : \A p \in Range(registry.bound[k]) : registry.store[p] = "loaded"

(***************************************************************************)
(* Between operations, with nothing registered to read back, the registry  *)
(* is the user's: what get()s registered is gone again with all its        *)
(* bindings, and every node has what the user bound to it, or to all       *)
(* nodes.  The provenance nodes have plugins of the user only: those that  *)
(* a get() bound there and no one unbinds before they are unregistered.    *)
(***************************************************************************)
RegistryIsUsers ==
  (Idle /\ registry.readback = << >>) =>
    /\ \A p \in Names : registry.store[p] # "absent" <=> p \in mine
    /\ registry.bound[All] = wanted[All]
    /\ \A k \in Fields : \/ registry.bound[k] = wanted[k]
                         \/ wanted[k] = << >> /\ registry.bound[k] = wanted[All]
    /\ Range(registry.bound[Provenance]) \subseteq mine

(***************************************************************************)
(* "a value of 1 for the index parameter indicates that the plugin should  *)
(* be applied after the plugin defined at index=0": what the put() stored  *)
(* in one order a get() binds, and so calls, in the other.                 *)
(***************************************************************************)
ReadbackInOrder ==
  op.readback = "bound" =>
    \A k \in Keys : \A x, y \in wrote[k] :
      x.index < y.index =>
        \E i, j \in DOMAIN registry.bound[k] :
          /\ registry.bound[k][i] = x.name /\ registry.bound[k][j] = y.name
          /\ i < j

(***************************************************************************)
(* begin_global_action() lets a plugin prepare "before iteration of the    *)
(* IDS nodes": a plugin that is called was told of the operation, whatever *)
(* the node it is bound to.                                                *)
(***************************************************************************)
BegunBeforeCalled == ~Idle => Range(called.by) \subseteq op.begun

(***************************************************************************)
(* "call the plugin operation read_data(...) for a given IDS node path     *)
(* only if the node_operation(...) function returns GET_ONLY or            *)
(* PUT_AND_GET for this path", and write_data(...) likewise.               *)
(***************************************************************************)
CalledForItsNode ==
  \A p \in Range(called.by) : NodeOperation[p][called.node] # Excluded(called.what)

===============================================================================

----------------------------- MODULE PatchPaths -----------------------------
(***************************************************************************)
(* The path operations of engine/patch_path.go on a node's output, a JSON    *)
(* object.  A path is the sequence of tokens parsePatchTokens makes of it:   *)
(* keys, and indexes counted from 0.  An operation returns the document it   *)
(* leaves, or the error after which its caller drops the document.           *)
(***************************************************************************)
EXTENDS Naturals, Sequences, SequencesExt

(* Values *)
Null == [type |-> "null"]
Leaf(v) == [type |-> "leaf", value |-> v]
Object(f) == [type |-> "object", at |-> f]
Array(s) == [type |-> "array", items |-> s]
EmptyObject == Object(<<>>)
IsContainer(v) == v.type \in {"object", "array"}

(* Tokens *)
Key(k) == [type |-> "key", key |-> k]
Index(i) == [type |-> "index", index |-> i]

Done(doc) == [ok |-> TRUE, doc |-> doc]
Error == [ok |-> FALSE, doc |-> Null]

-----------------------------------------------------------------------------

HasKey(v, tok) == v.type = "object" /\ tok.type = "key" /\ tok.key \in DOMAIN v.at
HasIndex(v, tok) == v.type = "array" /\ tok.type = "index" /\ tok.index < Len(v.items)
Has(v, tok) == HasKey(v, tok) \/ HasIndex(v, tok)

Child(v, tok) == IF tok.type = "key" THEN v.at[tok.key] ELSE v.items[tok.index + 1]

(* node[tok] = child *)
With(v, tok, child) ==
  IF tok.type = "key"
  THEN Object([k \in DOMAIN v.at \cup {tok.key} |-> IF k = tok.key THEN child ELSE v.at[k]])
  ELSE Array([v.items EXCEPT ![tok.index + 1] = child])

(* An object takes any key, an array only an index it has.                   *)
Takes(v, tok) == (v.type = "object" /\ tok.type = "key") \/ HasIndex(v, tok)

RECURSIVE GetByPath(_, _)
GetByPath(v, path) ==
  IF path = <<>> THEN Done(v)
  ELSE IF ~Has(v, Head(path)) THEN Error
  ELSE GetByPath(Child(v, Head(path)), Tail(path))

makeContainerForNext(tok) == IF tok.type = "index" THEN Array(<<>>) ELSE EmptyObject

(* Mutant: the container is made anew. *)
ChildForSetNew(v, path) == makeContainerForNext(path[2])

(* The container a longer path continues in: a missing or null child is      *)
(* created.                                                                  *)
ChildForSet(v, path) ==
  IF Has(v, Head(path)) /\ Child(v, Head(path)) # Null THEN Child(v, Head(path))
  ELSE makeContainerForNext(path[2])

RECURSIVE setAtAny(_, _, _)
setAtAny(v, path, value) ==
  IF ~Takes(v, Head(path)) THEN Error
  ELSE IF Len(path) = 1 THEN Done(With(v, Head(path), value))
  ELSE LET set == setAtAny(ChildForSet(v, path), Tail(path), value)
       IN IF set.ok THEN Done(With(v, Head(path), set.doc)) ELSE Error

SetByPath(root, path, value) == IF path = <<>> THEN Error ELSE setAtAny(root, path, value)

(* delete(node, key) of an object, nil for an item of an array.              *)
Without(v, tok) ==
  IF tok.type = "key" THEN Object([k \in DOMAIN v.at \ {tok.key} |-> v.at[k]])
  ELSE With(v, tok, Null)

(* A path that leads nowhere is deleted already; a token of the wrong kind   *)
(* for its container is an error.                                            *)
RECURSIVE deleteAtAny(_, _)
deleteAtAny(v, path) ==
  IF \/ v.type = "object" /\ Head(path).type = "index"
     \/ v.type = "array" /\ Head(path).type = "key"
  THEN Error
  ELSE IF ~Has(v, Head(path)) THEN Done(v)
  ELSE IF Len(path) = 1 THEN Done(Without(v, Head(path)))
  ELSE LET deleted == deleteAtAny(Child(v, Head(path)), Tail(path))
       IN IF deleted.ok THEN Done(With(v, Head(path), deleted.doc)) ELSE Error

DeleteByPath(root, path) == IF path = <<>> THEN Error ELSE deleteAtAny(root, path)

(* The keys of src over those of dst. *)
Overlay(dst, src) ==
  Object([k \in DOMAIN dst.at \cup DOMAIN src.at |->
            IF k \in DOMAIN src.at THEN src.at[k] ELSE dst.at[k]])

MergeByPath(root, path, src) ==
  IF src.type # "object" THEN Error
  ELSE IF path = <<>> THEN Done(Overlay(root, src))
  ELSE LET existing == GetByPath(root, path)
       IN IF ~existing.ok \/ existing.doc = Null THEN SetByPath(root, path, src)
          ELSE IF existing.doc.type # "object" THEN Error
          ELSE setAtAny(root, path, Overlay(existing.doc, src))

ApplyPatch(doc, p) ==
  IF p.op = "set" THEN SetByPath(doc, p.path, p.value)
  ELSE IF p.op = "delete" THEN DeleteByPath(doc, p.path)
  ELSE MergeByPath(doc, p.path, p.value)

-----------------------------------------------------------------------------
(* Reference definitions: a document as the set of its leaves, each with the *)
(* tokens that lead to it; an empty container counts as a leaf.              *)

Tokens(v) ==
  IF v.type = "object" THEN {Key(k) : k \in DOMAIN v.at}
  ELSE {Index(i - 1) : i \in DOMAIN v.items}

RECURSIVE Leaves(_)
Leaves(v) ==
  IF ~IsContainer(v) \/ Tokens(v) = {} THEN {[path |-> <<>>, leaf |-> v]}
  ELSE UNION {{[path |-> <<tok>> \o l.path, leaf |-> l.leaf] : l \in Leaves(Child(v, tok))} :
              tok \in Tokens(v)}

Below(path, v) == {[path |-> path \o l.path, leaf |-> l.leaf] : l \in Leaves(v)}

(* What lies at the path or below it, or is a leaf above it, makes way.      *)
Aside(leaves, path) ==
  {l \in leaves : ~IsPrefix(path, l.path) /\ ~IsPrefix(l.path, path)}

AfterSet(leaves, path, value) == Aside(leaves, path) \cup Below(path, value)

(* An object that loses its last key is empty; an item becomes null.         *)
AfterDelete(leaves, path) ==
  LET rest == {l \in leaves : ~IsPrefix(path, l.path)}
      holder == Front(path)
  IN IF rest = leaves THEN leaves
     ELSE IF Last(path).type = "index" THEN rest \cup Below(path, Null)
     ELSE IF \E l \in rest : IsPrefix(holder, l.path) THEN rest
     ELSE rest \cup Below(holder, EmptyObject)

AfterMerge(leaves, path, src) ==
  LET keyed == {l \in leaves : IsStrictPrefix(path, l.path)}
      Overwritten(l) == l.path[Len(path) + 1].key \in DOMAIN src.at
  IN IF src = EmptyObject /\ keyed # {} THEN leaves
     ELSE Aside(leaves, path) \cup Below(path, src) \cup {l \in keyed : ~Overwritten(l)}

AfterPatch(leaves, p) ==
  IF p.op = "set" THEN AfterSet(leaves, p.path, p.value)
  ELSE IF p.op = "delete" THEN AfterDelete(leaves, p.path)
  ELSE AfterMerge(leaves, p.path, p.value)

=============================================================================

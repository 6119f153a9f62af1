------------------------- MODULE ProjectSourcesProofs -------------------------
(***************************************************************************)
(* The safety properties of ProjectSources, for any project, any paths and *)
(* any number of actors.  The argument is about the sets of writes that a  *)
(* save can be cut off after: when it begins, the project loads whichever  *)
(* of them is in place, and from then on the directory is the old one with *)
(* such a set in place.                                                    *)
(***************************************************************************)
EXTENDS ProjectSources, SequenceTheorems, WellFoundedInduction, TLAPS

\* The directory `before' with the texts of the paths in S written.
Overlay(before, text, S) ==
    [q \in DOMAIN before \cup S |-> IF q \in S THEN text[q] ELSE before[q]]

\* What a save may have written when it is cut off: the project file only with all else.
Cuts(text) == {S \in SUBSET DOMAIN text : ProjectFile \in S => S = DOMAIN text}

\* The same, for any save: in any order if an include comes after the project file.
Partial(text) == IF Late(text) THEN SUBSET DOMAIN text ELSE Cuts(text)

\* Wherever the save of these texts is cut off, the project loads.
SafeSave(before, text) == \A S \in Cuts(text) : Loads(Overlay(before, text, S))

\* Only sources of the project are overwritten.
SourcesOnly(before, text) ==
    \A p \in DOMAIN text \cap DOMAIN before : p \in Range(Sources(before[ProjectFile]))

\* The guest takes the result if it took the project as it was.
GuestSafe(before, text) ==
    GuestAccepts(ProjectRecipe(before)) =>
        GuestAccepts(ProjectRecipe(Overlay(before, text, DOMAIN text)))

SavePhases == {"archive", "write", "check", "undo"}

\* The fields of an operation.
Fields(r) ==
    r = [kind |-> r.kind, phase |-> r.phase, unread |-> r.unread, todo |-> r.todo,
         text |-> r.text, changed |-> r.changed, before |-> r.before,
         archived |-> r.archived, failed |-> r.failed]

\* Which of them an operation of its kind uses in which phase.
OpType(r) ==
    /\ Fields(r)
    /\ r.kind \in {"none", "open", "run", "add", "rewrite", "apply"}
    /\ r.phase \in {"none", "read", "loaded"} \cup SavePhases
    /\ (r.kind = "none") <=> (r.phase = "none")
    /\ (r.kind = "open") <=> (r.phase = "read")
    /\ (r.kind = "run") <=> (r.phase = "loaded")
    /\ (r.phase = "loaded") => IsText(r.before)
    /\ (r.phase = "archive") => r.kind = "apply"
    /\ (r.phase \in {"check", "undo"}) => r.kind \in {"rewrite", "apply"}
    /\ r.unread \in Seq(Path) /\ ((r.unread = <<>>) <=> (r.phase # "read"))
    /\ r.todo \cup r.changed \subseteq DOMAIN r.text
    /\ (r.phase \in {"archive", "write"}) => r.todo # {}
    /\ r.archived \in BOOLEAN /\ r.failed \in BOOLEAN
    /\ r.archived => r.kind = "apply"
    /\ r.failed => r.phase = "undo"

Scalars ==
    /\ vm \in [running : BOOLEAN, disk : BOOLEAN]
    /\ drift \in BOOLEAN /\ window \in BOOLEAN
    /\ saves \in 0..MaxSaves /\ faults \in 0..MaxFaults /\ crashes \in 0..MaxCrashes

StateType ==
    /\ IsDirectory(files) /\ Scalars
    /\ lock \in Actor \cup {NoOne}
    /\ op = [a \in Actor |-> op[a]] /\ form = [a \in Actor |-> form[a]]
    /\ \A a \in Actor : OpType(op[a]) /\ ((lock = a) <=> (op[a].phase \in SavePhases))

\* A save starts from a project that loads, and its texts are what its kind may write.
Plan(r) ==
    /\ IsDirectory(r.before) /\ IsDirectory(r.text) /\ Loads(r.before)
    /\ r.kind = "rewrite" => \E p \in Path : DOMAIN r.text = {p}
    /\ r.kind = "add" => ~Late(r.text)
    /\ r.kind \in {"add", "apply"} =>
        /\ ProjectFile \in DOMAIN r.text
        /\ SafeSave(r.before, r.text) /\ SourcesOnly(r.before, r.text)
    /\ r.kind = "apply" => GuestSafe(r.before, r.text)

PlanInv == \A a \in Actor : lock = a =>
    /\ Plan(op[a])
    /\ op[a].kind = "apply" => form[a] = SnapshotOf(op[a].before)

\* The directory is the one from before the save with what it has written in place.
Progress(r) ==
    /\ r.phase \in {"archive", "write"} =>
        /\ r.changed = DOMAIN r.text \ r.todo
        /\ files = Overlay(r.before, r.text, r.changed)
        /\ ProjectFile \in DOMAIN r.text /\ ~Late(r.text) => ProjectFile \in r.todo
    /\ r.phase = "archive" => r.changed = {}
    /\ r.phase = "check" => r.changed = DOMAIN r.text
                            /\ files = Overlay(r.before, r.text, DOMAIN r.text)
    /\ r.phase = "undo" =>
        \/ r.failed /\ window /\ drift
        \/ \E S \in Partial(r.text) :
               S \subseteq r.changed /\ files = Overlay(r.before, r.text, S)

ProgressInv == \A a \in Actor : lock = a => Progress(op[a])

\* The prepared disk is out of the way when a save of the editor writes; the one it
\* archived belongs to the sources from before the save.
Disk(r) ==
    /\ r.kind = "apply" /\ r.phase # "archive" => ~vm.disk
    /\ r.phase = "archive" \/ r.archived => drift \/ Matches(r.before)
    /\ r.phase \in {"check", "undo"} /\ vm.disk => drift

DiskInv == \A a \in Actor : lock = a => Disk(op[a])

Inductive ==
    StateType /\ PlanInv /\ ProgressInv /\ DiskInv /\ LoadableWhenFree /\ DiskMatchesSources

--------------------------------------------------------------------------------
(***************************************************************************)
(* Directories with some writes in place.                                  *)
(***************************************************************************)

LEMMA OverlayNone ==
    ASSUME NEW before, NEW text, IsDirectory(before)
    PROVE  Overlay(before, text, {}) = before
  BY DEF Overlay, IsDirectory

LEMMA OverlayPut ==
    ASSUME NEW before, NEW text, NEW S, NEW p
    PROVE  Put(Overlay(before, text, S), p, text[p]) = Overlay(before, text, S \cup {p})
<1> DEFINE F == Put(Overlay(before, text, S), p, text[p])
           G == Overlay(before, text, S \cup {p})
<1>1. DOMAIN F = DOMAIN before \cup S \cup {p} /\ DOMAIN G = DOMAIN before \cup S \cup {p}
  BY DEF Put, Overlay
<1>2. \A q \in DOMAIN before \cup S \cup {p} : F[q] = G[q]
  BY DEF Put, Overlay
<1>3. F = [q \in DOMAIN F |-> F[q]] /\ G = [q \in DOMAIN G |-> G[q]]
  BY DEF Put, Overlay
<1> HIDE DEF F, G
<1>4. F = G
  BY <1>1, <1>2, <1>3
<1>5. QED
  BY <1>4 DEF F, G

LEMMA OverlayRestored ==
    ASSUME NEW before, NEW text, NEW S, NEW p
    PROVE  Restored(Overlay(before, text, S), before, p) = Overlay(before, text, S \ {p})
<1> DEFINE F == Restored(Overlay(before, text, S), before, p)
           G == Overlay(before, text, S \ {p})
           D == DOMAIN before \cup (S \ {p})
<1>1. DOMAIN G = D /\ G = [q \in DOMAIN G |-> G[q]]
  BY DEF Overlay
<1>2. DOMAIN F = D /\ F = [q \in DOMAIN F |-> F[q]]
  BY DEF Restored, Put, Overlay
<1>3. \A q \in D : F[q] = G[q]
  BY DEF Restored, Put, Overlay
<1> HIDE DEF F, G
<1>4. F = G
  BY <1>1, <1>2, <1>3
<1>5. QED
  BY <1>4 DEF F, G

LEMMA OverlayDirectory ==
    ASSUME NEW before, NEW text, IsDirectory(before), IsDirectory(text),
           NEW S \in SUBSET DOMAIN text
    PROVE  IsDirectory(Overlay(before, text, S))
  BY DEF Overlay, IsDirectory

\* A directory is known by its files.
LEMMA SameDirectory ==
    ASSUME NEW fs, NEW gs, IsDirectory(fs), IsDirectory(gs), DOMAIN fs = DOMAIN gs,
           \A p \in DOMAIN fs : fs[p] = gs[p]
    PROVE  fs = gs
  BY DEF IsDirectory

LEMMA PutDirectory ==
    ASSUME NEW fs, IsDirectory(fs), NEW p \in Path, NEW t, IsText(t)
    PROVE  IsDirectory(Put(fs, p, t))
  BY DEF Put, IsDirectory

--------------------------------------------------------------------------------
(***************************************************************************)
(* Recipes that stay valid when the directory changes.                     *)
(***************************************************************************)

\* Every place is a node's or a script's.
LEMMA PlacesCases ==
    ASSUME NEW file, NEW nodes, NEW k \in Places(file, nodes)
    PROVE  \/ \E i \in DOMAIN nodes : k = <<"node", i>>
           \/ \E i \in DOMAIN file.scripts : k = <<"script", i>>
  BY DEF Places

\* The links of a directory are the attachments of its nodes.
LEMMA LinksOf ==
    ASSUME NEW fs, NEW F, NEW l
    PROVE  l \in Links(NodesOf(fs, F)) <=>
              \E i \in DOMAIN F.nodes : \E lan \in DOMAIN fs[F.nodes[i]].attachments :
                  l = [element |-> fs[F.nodes[i]].id, network |-> lan,
                       times |-> fs[F.nodes[i]].attachments[lan]]
<1> DEFINE L(n) == {[element |-> n.id, network |-> lan, times |-> n.attachments[lan]] :
                      lan \in DOMAIN n.attachments}
           N == NodesOf(fs, F)
<1>1. l \in Links(N) <=> \E n \in Range(N) : l \in L(n)
  BY DEF Links
<1>2. \A n : l \in L(n) <=> \E lan \in DOMAIN n.attachments :
                   l = [element |-> n.id, network |-> lan, times |-> n.attachments[lan]]
  OBVIOUS
<1>3. DOMAIN N = DOMAIN F.nodes /\ \A i \in DOMAIN F.nodes : N[i] = fs[F.nodes[i]]
  BY DEF NodesOf
<1> HIDE DEF L, N
<1>4. \A n : n \in Range(N) <=> \E i \in DOMAIN F.nodes : n = fs[F.nodes[i]]
  BY <1>3 DEF Range
<1>5. l \in Links(N) <=> \E i \in DOMAIN F.nodes : l \in L(fs[F.nodes[i]])
  BY <1>1, <1>4
<1>6. QED
  BY <1>2, <1>5 DEF N

LEMMA SameRange ==
    ASSUME NEW f, NEW g, DOMAIN f = DOMAIN g, \A k \in DOMAIN f : f[k] = g[k]
    PROVE  Range(f) = Range(g)
  BY DEF Range

\* The recipe of a directory, by its parts.
LEMMA RecipeParts ==
    ASSUME NEW fs
    PROVE  LET R == ProjectRecipe(fs)
               F == fs[ProjectFile]
           IN  /\ R.header = F.header
               /\ DOMAIN R.elements = Places(F, F.nodes)
               /\ \A k \in DOMAIN R.elements : \/ \E i \in DOMAIN F.nodes : k = <<"node", i>>
                                              \/ \E i \in DOMAIN F.scripts : k = <<"script", i>>
               /\ \A i \in DOMAIN F.nodes :
                      R.elements[<<"node", i>>] = NodeElement(fs[F.nodes[i]])
               /\ \A i \in DOMAIN F.scripts :
                      R.elements[<<"script", i>>] = ScriptElement(F.scripts[i])
               /\ R.links = Links(NodesOf(fs, F))
               /\ R.startup = IF F.startup = EmptyBag
                              THEN SetToBag({e.id : e \in {e \in Range(R.elements) : e.enabled}})
                              ELSE F.startup
<1> DEFINE F == fs[ProjectFile]
           N == NodesOf(fs, F)
           E == Elements(F, N)
<1>1. DOMAIN N = DOMAIN F.nodes /\ \A i \in DOMAIN F.nodes : N[i] = fs[F.nodes[i]]
  BY DEF NodesOf
<1>2. DOMAIN E = Places(F, N) /\ Places(F, N) = Places(F, F.nodes)
  BY <1>1 DEF Elements, Places
<1>3. \A i \in DOMAIN F.nodes : E[<<"node", i>>] = NodeElement(N[i])
  BY <1>1 DEF Elements, Places
<1>4. \A i \in DOMAIN F.scripts : E[<<"script", i>>] = ScriptElement(F.scripts[i])
  BY DEF Elements, Places
<1> HIDE DEF N, E
<1>5. ProjectRecipe(fs) =
          [header |-> F.header, elements |-> E, links |-> Links(N),
           startup |-> IF F.startup = EmptyBag
                       THEN SetToBag({e.id : e \in {e \in Range(E) : e.enabled}})
                       ELSE F.startup]
  BY DEF ProjectRecipe, RecipeOf, N, E
<1>6. ASSUME NEW k \in DOMAIN E
      PROVE  \/ \E i \in DOMAIN F.nodes : k = <<"node", i>>
             \/ \E i \in DOMAIN F.scripts : k = <<"script", i>>
  <2>1. k \in Places(F, N)
    BY <1>2
  <2>2. \/ \E i \in DOMAIN N : k = <<"node", i>>
        \/ \E i \in DOMAIN F.scripts : k = <<"script", i>>
    BY <2>1, PlacesCases
  <2>3. QED
    BY <1>1, <2>2
<1>7. QED
  BY <1>1, <1>2, <1>3, <1>4, <1>5, <1>6 DEF N

LEMMA IdsOfRecipe ==
    ASSUME NEW R
    PROVE  Ids(R) = {R.elements[k].id : k \in DOMAIN R.elements}
  BY DEF Ids, Range

LEMMA NodeElementFields ==
    ASSUME NEW n
    PROVE  LET e == NodeElement(n) IN
           /\ e.id = n.id /\ e.templateId = n.templateId /\ e.enabled = n.enabled
           /\ e.assets = n.assets /\ e.weight = n.weight
           /\ e.command = n.command /\ e.env = n.env
  BY DEF NodeElement, Element

LEMMA BagOfSet ==
    ASSUME NEW S
    PROVE  DOMAIN SetToBag(S) = S /\ \A x \in S : SetToBag(S)[x] = 1
  BY DEF SetToBag

\* What load_project demands, by the parts of the recipe.
LEMMA LoadsUnfold ==
    ASSUME NEW fs
    PROVE  LET R == ProjectRecipe(fs)
               F == fs[ProjectFile]
           IN  Loads(fs) <=>
               /\ ProjectFile \in DOMAIN fs /\ F.kind = "project"
               /\ \A p \in Range(F.nodes) : p \in Inside \cap DOMAIN fs /\ fs[p].kind = "node"
               /\ \A p \in Range(F.others) \cup Range(F.scripts) : p \in Inside \cap DOMAIN fs
               /\ \A p \in Range(F.scripts) : ScriptTemplate[p] # Unsupported
               /\ validate_recipe(R)
               /\ \A e \in Range(R.elements) : \A asset \in e.assets :
                      asset.source \in Inside \cap DOMAIN fs /\ asset.destination = "valid"
  BY DEF Loads, Builds, ProjectRecipe, Resolves

Within(b, c) == DOMAIN b \subseteq DOMAIN c /\ \A x \in DOMAIN b : b[x] = c[x]

SameIncludes(f, g) ==
    /\ f.kind = g.kind /\ f.header = g.header /\ f.nodes = g.nodes
    /\ f.scripts = g.scripts /\ f.others = g.others

\* A directory that differs from one that loads only in texts no rule is about, in
\* attachments it lacks, and in a startup order that names elements once.
LEMMA LoadsLike ==
    ASSUME NEW fs, NEW gs, Loads(gs),
           ProjectFile \in DOMAIN fs, DOMAIN gs \subseteq DOMAIN fs,
           SameIncludes(fs[ProjectFile], gs[ProjectFile]),
           \A p \in Range(gs[ProjectFile].nodes) :
               /\ fs[p].kind = "node" /\ NodeElement(fs[p]) = NodeElement(gs[p])
               /\ Within(fs[p].attachments, gs[p].attachments),
           fs[ProjectFile].startup = EmptyBag
               \/ \A id \in DOMAIN fs[ProjectFile].startup :
                      id \in Ids(ProjectRecipe(gs)) /\ fs[ProjectFile].startup[id] = 1
    PROVE  Loads(fs)
<1> DEFINE F == fs[ProjectFile]
           G == gs[ProjectFile]
           R == ProjectRecipe(fs)
           Q == ProjectRecipe(gs)
<1>1. /\ R.header = F.header /\ Q.header = G.header
      /\ DOMAIN R.elements = Places(F, F.nodes) /\ DOMAIN Q.elements = Places(G, G.nodes)
      /\ R.links = Links(NodesOf(fs, F)) /\ Q.links = Links(NodesOf(gs, G))
      /\ R.startup = IF F.startup = EmptyBag
                     THEN SetToBag({e.id : e \in {e \in Range(R.elements) : e.enabled}})
                     ELSE F.startup
  BY RecipeParts
<1>2. /\ \A i \in DOMAIN F.nodes : R.elements[<<"node", i>>] = NodeElement(fs[F.nodes[i]])
      /\ \A i \in DOMAIN F.scripts : R.elements[<<"script", i>>] = ScriptElement(F.scripts[i])
  BY RecipeParts
<1>3. /\ \A i \in DOMAIN G.nodes : Q.elements[<<"node", i>>] = NodeElement(gs[G.nodes[i]])
      /\ \A i \in DOMAIN G.scripts : Q.elements[<<"script", i>>] = ScriptElement(G.scripts[i])
      /\ \A k \in DOMAIN Q.elements : \/ \E i \in DOMAIN G.nodes : k = <<"node", i>>
                                     \/ \E i \in DOMAIN G.scripts : k = <<"script", i>>
  BY RecipeParts
<1>4. validate_recipe(Q) /\ (Loads(fs) <=>
        /\ ProjectFile \in DOMAIN fs /\ F.kind = "project"
        /\ \A p \in Range(F.nodes) : p \in Inside \cap DOMAIN fs /\ fs[p].kind = "node"
        /\ \A p \in Range(F.others) \cup Range(F.scripts) : p \in Inside \cap DOMAIN fs
        /\ \A p \in Range(F.scripts) : ScriptTemplate[p] # Unsupported
        /\ validate_recipe(R)
        /\ \A e \in Range(R.elements) : \A asset \in e.assets :
               asset.source \in Inside \cap DOMAIN fs /\ asset.destination = "valid")
  BY LoadsUnfold
<1>5. /\ G.kind = "project"
      /\ \A p \in Range(G.nodes) : p \in Inside \cap DOMAIN gs
      /\ \A p \in Range(G.others) \cup Range(G.scripts) : p \in Inside \cap DOMAIN gs
      /\ \A p \in Range(G.scripts) : ScriptTemplate[p] # Unsupported
      /\ \A e \in Range(Q.elements) : \A asset \in e.assets :
               asset.source \in Inside \cap DOMAIN gs /\ asset.destination = "valid"
  BY LoadsUnfold
<1>6. /\ F.kind = G.kind /\ F.header = G.header /\ F.nodes = G.nodes
      /\ F.scripts = G.scripts /\ F.others = G.others
  BY DEF SameIncludes
<1>7. \A i \in DOMAIN G.nodes :
        /\ G.nodes[i] \in Range(G.nodes)
        /\ fs[G.nodes[i]].kind = "node"
        /\ NodeElement(fs[G.nodes[i]]) = NodeElement(gs[G.nodes[i]])
        /\ fs[G.nodes[i]].id = gs[G.nodes[i]].id
        /\ DOMAIN fs[G.nodes[i]].attachments \subseteq DOMAIN gs[G.nodes[i]].attachments
        /\ \A x \in DOMAIN fs[G.nodes[i]].attachments :
               fs[G.nodes[i]].attachments[x] = gs[G.nodes[i]].attachments[x]
  BY NodeElementFields DEF Within, Range
<1>8. F.startup = EmptyBag
        \/ \A id \in DOMAIN F.startup : id \in Ids(Q) /\ F.startup[id] = 1
  OBVIOUS
<1>9. \A p \in Range(G.nodes) : fs[p].kind = "node"
  OBVIOUS
<1>10. DOMAIN gs \subseteq DOMAIN fs /\ ProjectFile \in DOMAIN fs
  OBVIOUS
<1> HIDE DEF F, G, R, Q
<1>11. DOMAIN R.elements = DOMAIN Q.elements
  BY <1>1, <1>6 DEF Places
<1>12. ASSUME NEW k \in DOMAIN Q.elements PROVE R.elements[k] = Q.elements[k]
  <2>1. CASE \E i \in DOMAIN G.nodes : k = <<"node", i>>
    BY <1>2, <1>3, <1>6, <1>7, <2>1
  <2>2. CASE \E i \in DOMAIN G.scripts : k = <<"script", i>>
    BY <1>2, <1>3, <1>6, <2>2
  <2>3. QED
    BY <1>3, <2>1, <2>2
<1>13. Range(R.elements) = Range(Q.elements) /\ Ids(R) = Ids(Q)
  BY <1>11, <1>12, SameRange DEF Ids
<1>14. R.links \subseteq Q.links
  <2> SUFFICES ASSUME NEW l \in R.links PROVE l \in Q.links
    OBVIOUS
  <2>1. PICK i \in DOMAIN F.nodes : \E lan \in DOMAIN fs[F.nodes[i]].attachments :
            l = [element |-> fs[F.nodes[i]].id, network |-> lan,
                 times |-> fs[F.nodes[i]].attachments[lan]]
    BY <1>1, LinksOf
  <2>2. PICK lan \in DOMAIN fs[F.nodes[i]].attachments :
            l = [element |-> fs[F.nodes[i]].id, network |-> lan,
                 times |-> fs[F.nodes[i]].attachments[lan]]
    BY <2>1
  <2>3. i \in DOMAIN G.nodes /\ F.nodes[i] = G.nodes[i]
    BY <1>6
  <2>4. /\ lan \in DOMAIN gs[G.nodes[i]].attachments
        /\ l = [element |-> gs[G.nodes[i]].id, network |-> lan,
                times |-> gs[G.nodes[i]].attachments[lan]]
    BY <1>7, <2>2, <2>3
  <2>5. QED
    BY <1>1, <2>3, <2>4, LinksOf
<1>15. \A id \in DOMAIN R.startup : id \in Ids(R) /\ R.startup[id] = 1
  <2>1. CASE F.startup = EmptyBag
    BY <1>1, <2>1, BagOfSet DEF Ids
  <2>2. CASE F.startup # EmptyBag
    BY <1>1, <1>8, <1>13, <2>2
  <2>3. QED
    BY <2>1, <2>2
<1>16. validate_recipe(R)
  <2>1. \A e \in Range(R.elements) : ValidElement(e)
    BY <1>4, <1>13 DEF validate_recipe
  <2>2. \A j, k \in DOMAIN R.elements : R.elements[j].id = R.elements[k].id => j = k
    BY <1>4, <1>11, <1>12 DEF validate_recipe
  <2>3. \A link \in R.links : ValidLink(R, link)
    BY <1>4, <1>13, <1>14 DEF validate_recipe, ValidLink
  <2>4. R.header = "valid"
    BY <1>1, <1>4, <1>6 DEF validate_recipe
  <2>5. QED
    BY <1>15, <2>1, <2>2, <2>3, <2>4 DEF validate_recipe
<1>17. QED
  BY <1>4, <1>5, <1>6, <1>9, <1>10, <1>13, <1>16

\* The recipe Q is R with one more element e, at the place k, with an id of its own
\* and valid links.
Extends(R, Q, k, e) ==
    /\ Q.header = R.header
    /\ k \notin DOMAIN R.elements /\ DOMAIN Q.elements = DOMAIN R.elements \cup {k}
    /\ Q.elements[k] = e /\ \A j \in DOMAIN R.elements : Q.elements[j] = R.elements[j]
    /\ ValidElement(e) /\ e.id \notin Ids(R)
    /\ \A l \in Q.links : l \in R.links \/
           /\ l.element = e.id /\ l.times = 1
           /\ \E f \in Range(R.elements) :
                  f.id = l.network /\ project_templates[f.templateId] = "network"

LEMMA ExtendValid ==
    ASSUME NEW R, NEW Q, NEW k, NEW e, Extends(R, Q, k, e), validate_recipe(R),
           \A id \in DOMAIN Q.startup : id \in Ids(Q) /\ Q.startup[id] = 1
    PROVE  validate_recipe(Q)
<1> USE DEF Extends
<1>1. \A f : f \in Range(Q.elements) <=> f \in Range(R.elements) \/ f = e
  BY DEF Range
<1>2. \A id : id \in Ids(Q) <=> id \in Ids(R) \/ id = e.id
  BY <1>1 DEF Ids
<1>3. \A f \in Range(Q.elements) : ValidElement(f)
  BY <1>1 DEF validate_recipe
<1>4. \A i, j \in DOMAIN Q.elements : Q.elements[i].id = Q.elements[j].id => i = j
  <2>1. \A j \in DOMAIN R.elements : R.elements[j].id # e.id
    BY IdsOfRecipe
  <2>2. \A i, j \in DOMAIN R.elements : R.elements[i].id = R.elements[j].id => i = j
    BY DEF validate_recipe
  <2>3. QED
    BY <2>1, <2>2
<1>5. ASSUME NEW l \in Q.links PROVE ValidLink(Q, l)
  <2>1. CASE l \in R.links
    <3>1. ValidLink(R, l)
      BY <2>1 DEF validate_recipe
    <3>2. QED
      BY <1>1, <1>2, <3>1 DEF ValidLink
  <2>2. CASE l \notin R.links
    <3>1. PICK f \in Range(R.elements) :
              f.id = l.network /\ project_templates[f.templateId] = "network"
      BY <2>2
    <3>2. l.network \in Ids(R)
      BY <3>1 DEF Ids
    <3>3. l.element = e.id /\ l.times = 1
      BY <2>2
    <3>4. QED
      BY <1>1, <1>2, <3>1, <3>2, <3>3 DEF ValidLink
  <2>3. QED
    BY <2>1, <2>2
<1>6. Q.header = "valid"
  BY DEF validate_recipe
<1>7. QED
  BY <1>3, <1>4, <1>5, <1>6 DEF validate_recipe

\* A project that gains one element loads.
LEMMA ExtendLoads ==
    ASSUME NEW fs, NEW gs, NEW k, NEW e, Loads(gs),
           Extends(ProjectRecipe(gs), ProjectRecipe(fs), k, e),
           ProjectFile \in DOMAIN fs, DOMAIN gs \subseteq DOMAIN fs,
           fs[ProjectFile].kind = gs[ProjectFile].kind,
           fs[ProjectFile].others = gs[ProjectFile].others,
           \A p \in Range(fs[ProjectFile].nodes) :
               p \in Inside \cap DOMAIN fs /\ fs[p].kind = "node",
           \A p \in Range(fs[ProjectFile].scripts) :
               p \in Inside \cap DOMAIN fs /\ ScriptTemplate[p] # Unsupported,
           \A asset \in e.assets :
               asset.source \in Inside \cap DOMAIN fs /\ asset.destination = "valid",
           fs[ProjectFile].startup = EmptyBag
               \/ \A id \in DOMAIN fs[ProjectFile].startup :
                      /\ id \in Ids(ProjectRecipe(gs)) \cup {e.id}
                      /\ fs[ProjectFile].startup[id] = 1
    PROVE  Loads(fs)
<1> DEFINE F == fs[ProjectFile]
           G == gs[ProjectFile]
           Q == ProjectRecipe(fs)
           R == ProjectRecipe(gs)
<1>1. /\ Q.header = F.header /\ R.header = G.header
      /\ Q.startup = IF F.startup = EmptyBag
                     THEN SetToBag({x.id : x \in {x \in Range(Q.elements) : x.enabled}})
                     ELSE F.startup
  BY RecipeParts
<1>2. validate_recipe(R) /\ (Loads(fs) <=>
        /\ ProjectFile \in DOMAIN fs /\ F.kind = "project"
        /\ \A p \in Range(F.nodes) : p \in Inside \cap DOMAIN fs /\ fs[p].kind = "node"
        /\ \A p \in Range(F.others) \cup Range(F.scripts) : p \in Inside \cap DOMAIN fs
        /\ \A p \in Range(F.scripts) : ScriptTemplate[p] # Unsupported
        /\ validate_recipe(Q)
        /\ \A x \in Range(Q.elements) : \A asset \in x.assets :
               asset.source \in Inside \cap DOMAIN fs /\ asset.destination = "valid")
  BY LoadsUnfold
<1>3. /\ G.kind = "project"
      /\ \A p \in Range(G.others) : p \in Inside \cap DOMAIN gs
      /\ \A x \in Range(R.elements) : \A asset \in x.assets :
               asset.source \in Inside \cap DOMAIN gs /\ asset.destination = "valid"
  BY LoadsUnfold
<1>4. /\ F.kind = G.kind /\ F.others = G.others
      /\ \A p \in Range(F.nodes) : p \in Inside \cap DOMAIN fs /\ fs[p].kind = "node"
      /\ \A p \in Range(F.scripts) : p \in Inside \cap DOMAIN fs /\ ScriptTemplate[p] # Unsupported
      /\ ProjectFile \in DOMAIN fs /\ DOMAIN gs \subseteq DOMAIN fs
  OBVIOUS
<1>5. Extends(R, Q, k, e)
  OBVIOUS
<1>6. F.startup = EmptyBag
          \/ \A id \in DOMAIN F.startup : id \in Ids(R) \cup {e.id} /\ F.startup[id] = 1
  OBVIOUS
<1> HIDE DEF F, G, Q, R
<1>7. \A f : f \in Range(Q.elements) <=> f \in Range(R.elements) \/ f = e
  BY <1>5 DEF Range, Extends
<1>8. \A id : id \in Ids(Q) <=> id \in Ids(R) \/ id = e.id
  BY <1>7 DEF Ids
<1>9. \A id \in DOMAIN Q.startup : id \in Ids(Q) /\ Q.startup[id] = 1
  <2>1. CASE F.startup = EmptyBag
    BY <1>1, <2>1, BagOfSet DEF Ids
  <2>2. CASE F.startup # EmptyBag
    BY <1>1, <1>8, <1>6, <2>2
  <2>3. QED
    BY <2>1, <2>2
<1>10. validate_recipe(Q)
  BY <1>2, <1>9, <1>5, ExtendValid
<1>11. QED
  BY <1>2, <1>3, <1>7, <1>10, <1>4

--------------------------------------------------------------------------------
(***************************************************************************)
(* The includes: the path that unique_project_entry_path finds, and the    *)
(* two saves that add it.                                                  *)
(***************************************************************************)

Below == {ss \in Nat \X Nat : ss[1] < ss[2]}

LEMMA BelowWellFounded == IsWellFoundedOn(Below, Nat)
<1>1. OpToRel(<, Nat) = Below
  BY Zenon DEF OpToRel, Below
<1>2. QED
  BY <1>1, NatLessThanWellFounded, Zenon

LEMMA MinMember == ASSUME NEW S \in SUBSET Nat, S # {} PROVE Min(S) \in S
<1>1. PICK x \in S : \A y \in S : <<y, x>> \notin Below
  BY WFMin, BelowWellFounded
<1>2. \A y \in S : ~(y < x)
  BY <1>1 DEF Below
<1>3. \A y \in S : x <= y
  BY <1>2
<1>4. QED
  BY <1>3 DEF Min

LEMMA FirstFreeIsFree ==
    ASSUME NEW paths \in Seq(Inside \ {ProjectFile}), NEW idOf, FirstFree(paths, idOf) # NoOne
    PROVE  /\ FirstFree(paths, idOf) \in Range(paths)
           /\ FirstFree(paths, idOf) \in Inside \ {ProjectFile}
           /\ FirstFree(paths, idOf) \notin DOMAIN files
           /\ idOf[FirstFree(paths, idOf)] \notin Ids(ProjectRecipe(files))
<1> DEFINE free == {i \in DOMAIN paths : paths[i] \notin DOMAIN files
                                          /\ idOf[paths[i]] \notin Ids(ProjectRecipe(files))}
<1>1. free # {} /\ FirstFree(paths, idOf) = paths[Min(free)]
  BY DEF FirstFree
<1>2. free \in SUBSET Nat
  OBVIOUS
<1>3. Min(free) \in free
  BY <1>1, <1>2, MinMember
<1>4. \A i \in DOMAIN paths : paths[i] \in Inside \ {ProjectFile}
  OBVIOUS
<1> DEFINE m == Min(free)
<1>5. /\ m \in DOMAIN paths /\ paths[m] \notin DOMAIN files
      /\ idOf[paths[m]] \notin Ids(ProjectRecipe(files))
  BY <1>3
<1>6. FirstFree(paths, idOf) = paths[m]
  BY <1>1
<1> HIDE DEF m
<1>7. QED
  BY <1>4, <1>5, <1>6 DEF Range

LEMMA AppendAt ==
    ASSUME NEW S, NEW s \in Seq(S), NEW x \in S
    PROVE  /\ Append(s, x) \in Seq(S)
           /\ DOMAIN Append(s, x) = DOMAIN s \cup {Len(s) + 1}
           /\ Len(s) + 1 \notin DOMAIN s
           /\ \A i \in DOMAIN s : Append(s, x)[i] = s[i]
           /\ Append(s, x)[Len(s) + 1] = x
           /\ Range(Append(s, x)) = Range(s) \cup {x}
<1>1. /\ Append(s, x) \in Seq(S) /\ Len(Append(s, x)) = Len(s) + 1
      /\ \A i \in 1..Len(s) : Append(s, x)[i] = s[i]
      /\ Append(s, x)[Len(s) + 1] = x
  BY AppendProperties
<1>2. DOMAIN s = 1..Len(s) /\ DOMAIN Append(s, x) = 1..(Len(s) + 1) /\ Len(s) \in Nat
  BY <1>1
<1>3. DOMAIN Append(s, x) = DOMAIN s \cup {Len(s) + 1} /\ Len(s) + 1 \notin DOMAIN s
  BY <1>2
<1>4. QED
  BY <1>1, <1>2, <1>3 DEF Range

\* The parts of a project that loads.
LEMMA LoadedProject ==
    ASSUME NEW fs, IsDirectory(fs), Loads(fs)
    PROVE  LET F == fs[ProjectFile] IN
           /\ ProjectFile \in DOMAIN fs /\ F.kind = "project" /\ IsProject(F)
           /\ F.nodes \in Seq(Path) /\ F.scripts \in Seq(Path) /\ F.others \in Seq(Path)
           /\ Range(F.nodes) \cap Range(F.scripts) = {}
           /\ \A p \in Range(F.nodes) : /\ p \in Inside \cap DOMAIN fs /\ p # ProjectFile
                                       /\ fs[p].kind = "node" /\ IsNode(fs[p])
           /\ \A p \in Range(F.scripts) : /\ p \in Inside \cap DOMAIN fs /\ p # ProjectFile
                                         /\ ScriptTemplate[p] # Unsupported
           /\ F.startup = EmptyBag \/ \A id \in DOMAIN F.startup :
                  id \in Ids(ProjectRecipe(fs)) /\ F.startup[id] = 1
<1> DEFINE F == fs[ProjectFile]
<1>1. /\ ProjectFile \in DOMAIN fs /\ F.kind = "project"
      /\ \A p \in Range(F.nodes) : p \in Inside \cap DOMAIN fs /\ fs[p].kind = "node"
      /\ \A p \in Range(F.scripts) : p \in Inside \cap DOMAIN fs
      /\ \A p \in Range(F.scripts) : ScriptTemplate[p] # Unsupported
      /\ validate_recipe(ProjectRecipe(fs))
  BY LoadsUnfold
<1>2. IsProject(F) /\ \A p \in Range(F.nodes) : p # ProjectFile /\ IsNode(fs[p])
  BY <1>1 DEF IsDirectory, IsText
<1>3. \A p \in Range(F.scripts) : p # ProjectFile
  BY <1>1, SourcesAssumption
<1>4. F.startup = EmptyBag \/ ProjectRecipe(fs).startup = F.startup
  BY RecipeParts
<1>5. F.startup = EmptyBag \/ \A id \in DOMAIN F.startup :
          id \in Ids(ProjectRecipe(fs)) /\ F.startup[id] = 1
  BY <1>1, <1>4 DEF validate_recipe
<1>6. /\ F.nodes \in Seq(Path) /\ F.scripts \in Seq(Path) /\ F.others \in Seq(Path)
      /\ Range(F.nodes) \cap Range(F.scripts) = {}
  BY <1>2 DEF IsProject
<1>7. QED
  BY <1>1, <1>2, <1>3, <1>5, <1>6

LEMMA WithinItself == ASSUME NEW b PROVE Within(b, b)
  BY DEF Within

\* Texts of paths that no rule reads yet may be there or not.
LEMMA UnincludedLoads ==
    ASSUME NEW gs, IsDirectory(gs), Loads(gs), NEW p, p \notin DOMAIN gs, NEW t
    PROVE  Loads(Put(gs, p, t))
<1> DEFINE fs == Put(gs, p, t)
<1>1. ProjectFile \in DOMAIN gs /\ \A q \in Range(gs[ProjectFile].nodes) : q \in DOMAIN gs
  BY LoadedProject
<1>2. \A q \in DOMAIN gs : q \in DOMAIN fs /\ fs[q] = gs[q]
  BY DEF Put
<1>3. /\ gs[ProjectFile].startup = EmptyBag \/ \A id \in DOMAIN gs[ProjectFile].startup :
             id \in Ids(ProjectRecipe(gs)) /\ gs[ProjectFile].startup[id] = 1
      /\ \A q \in Range(gs[ProjectFile].nodes) : gs[q].kind = "node"
  BY LoadedProject
<1> HIDE DEF fs
<1>4. SameIncludes(fs[ProjectFile], gs[ProjectFile])
  BY <1>1, <1>2 DEF SameIncludes
<1>5. \A q \in Range(gs[ProjectFile].nodes) :
          /\ fs[q].kind = "node" /\ NodeElement(fs[q]) = NodeElement(gs[q])
          /\ Within(fs[q].attachments, gs[q].attachments)
  BY <1>1, <1>2, <1>3, WithinItself
<1>6. fs[ProjectFile].startup = EmptyBag \/ \A id \in DOMAIN fs[ProjectFile].startup :
          id \in Ids(ProjectRecipe(gs)) /\ fs[ProjectFile].startup[id] = 1
  BY <1>1, <1>2, <1>3
<1>7. ProjectFile \in DOMAIN fs /\ DOMAIN gs \subseteq DOMAIN fs
  BY <1>1, <1>2
<1>8. Loads(fs)
  BY <1>4, <1>5, <1>6, <1>7, LoadsLike
<1>9. QED
  BY <1>8 DEF fs

\* A save of a new file and the project file, in that order.
LEMMA TwoWrites ==
    ASSUME NEW gs, IsDirectory(gs), Loads(gs), NEW p, p \notin DOMAIN gs,
           NEW T, DOMAIN T = {p, ProjectFile}, Loads(Overlay(gs, T, {p, ProjectFile}))
    PROVE  SafeSave(gs, T)
<1>1. p # ProjectFile
  BY LoadedProject
<1>2. \A S \in Cuts(T) : S = {} \/ S = {p} \/ S = {p, ProjectFile}
  BY <1>1 DEF Cuts
<1>3. Loads(Overlay(gs, T, {}))
  BY OverlayNone
<1>4. Loads(Overlay(gs, T, {p}))
  <2>1. Put(Overlay(gs, T, {}), p, T[p]) = Overlay(gs, T, {} \cup {p})
    BY OverlayPut
  <2>2. {} \cup {p} = {p}
    OBVIOUS
  <2>3. QED
    BY <2>1, <2>2, OverlayNone, UnincludedLoads
<1>5. QED
  BY <1>2, <1>3, <1>4 DEF SafeSave

LEMMA JoinedStartup ==
    ASSUME NEW startup, NEW ids, NEW id,
           startup = EmptyBag \/ \A x \in DOMAIN startup : x \in ids /\ startup[x] = 1
    PROVE  LET J == Joined(startup, id) IN
           J = EmptyBag \/ \A x \in DOMAIN J : x \in ids \cup {id} /\ J[x] = 1
  BY DEF Joined, Put

\* The project file with other scripts or nodes, and another startup order.
LEMMA ProjectFields ==
    ASSUME NEW G, IsProject(G)
    PROVE  /\ G = [kind |-> "project", header |-> G.header, nodes |-> G.nodes,
                   scripts |-> G.scripts, others |-> G.others, startup |-> G.startup]
           /\ DOMAIN G = {"kind", "header", "nodes", "scripts", "others", "startup"}
           /\ G.kind = "project"
<1>1. G = [kind |-> "project", header |-> G.header, nodes |-> G.nodes,
           scripts |-> G.scripts, others |-> G.others, startup |-> G.startup]
  BY DEF IsProject
<1>2. QED
  BY <1>1

LEMMA WithScripts ==
    ASSUME NEW G, IsProject(G), NEW x, NEW y
    PROVE  [G EXCEPT !.scripts = x, !.startup = y] =
               [kind |-> "project", header |-> G.header, nodes |-> G.nodes,
                scripts |-> x, others |-> G.others, startup |-> y]
<1> DEFINE F == [G EXCEPT !.scripts = x]
<1>1. F = [kind |-> "project", header |-> G.header, nodes |-> G.nodes,
           scripts |-> x, others |-> G.others, startup |-> G.startup]
  BY ProjectFields
<1> HIDE DEF F
<1>2. [F EXCEPT !.startup = y] =
          [kind |-> "project", header |-> G.header, nodes |-> G.nodes,
           scripts |-> x, others |-> G.others, startup |-> y]
  BY <1>1
<1>3. QED
  BY <1>2, Zenon DEF F

LEMMA WithNodes ==
    ASSUME NEW G, IsProject(G), NEW x, NEW y
    PROVE  [G EXCEPT !.nodes = x, !.startup = y] =
               [kind |-> "project", header |-> G.header, nodes |-> x,
                scripts |-> G.scripts, others |-> G.others, startup |-> y]
<1> DEFINE F == [G EXCEPT !.nodes = x]
<1>1. F = [kind |-> "project", header |-> G.header, nodes |-> x,
           scripts |-> G.scripts, others |-> G.others, startup |-> G.startup]
  BY ProjectFields
<1> HIDE DEF F
<1>2. [F EXCEPT !.startup = y] =
          [kind |-> "project", header |-> G.header, nodes |-> x,
           scripts |-> G.scripts, others |-> G.others, startup |-> y]
  BY <1>1
<1>3. QED
  BY <1>2, Zenon DEF F

LEMMA ThreeParts ==
    ASSUME NEW h \in Seq(Path), NEW n \in Seq(Path), NEW s \in Seq(Path)
    PROVE  /\ (h \o n) \o s \in Seq(Path)
           /\ Len((h \o n) \o s) = (Len(h) + Len(n)) + Len(s)
           /\ Range((h \o n) \o s) = (Range(h) \cup Range(n)) \cup Range(s)
<1>1. h \o n \in Seq(Path) /\ Len(h \o n) = Len(h) + Len(n)
  BY ConcatProperties
<1>2. Range(h \o n) = Range(h) \cup Range(n)
  BY RangeConcatenation
<1> DEFINE A == h \o n
<1> HIDE DEF A
<1>3. A \in Seq(Path)
  BY <1>1 DEF A
<1>4. A \o s \in Seq(Path) /\ Len(A \o s) = Len(A) + Len(s)
  BY <1>3, ConcatProperties
<1>5. Range(A \o s) = Range(A) \cup Range(s)
  BY <1>3, RangeConcatenation
<1>6. QED
  BY <1>1, <1>2, <1>4, <1>5 DEF A

LEMMA SourcesMembers ==
    ASSUME NEW F, F.nodes \in Seq(Path), F.scripts \in Seq(Path)
    PROVE  /\ Sources(F) \in Seq(Path) /\ Sources(F) # <<>>
           /\ Range(Sources(F)) = {ProjectFile} \cup Range(F.nodes) \cup Range(F.scripts)
<1> DEFINE h == <<ProjectFile>>
           n == F.nodes
           s == F.scripts
           A == (h \o n) \o s
<1>1. Len(h) = 1 /\ Range(h) = {ProjectFile}
  BY DEF Range
<1>2. h \in Seq(Path) /\ n \in Seq(Path) /\ s \in Seq(Path)
  BY SourcesAssumption
<1>3. Sources(F) = A
  BY DEF Sources
<1> HIDE DEF h, n, s
<1>4. /\ A \in Seq(Path) /\ Len(A) = (Len(h) + Len(n)) + Len(s)
      /\ Range(A) = (Range(h) \cup Range(n)) \cup Range(s)
  BY <1>2, ThreeParts
<1>5. Len(n) \in Nat /\ Len(s) \in Nat
  BY <1>2
<1> HIDE DEF A
<1>6. Len(A) # 0
  BY <1>1, <1>4, <1>5
<1>7. A # <<>>
  BY <1>6
<1>8. QED
  BY <1>1, <1>3, <1>4, <1>7 DEF n, s

LEMMA TemplateNames ==
    /\ SUPPORTED_TEMPLATES \subseteq DOMAIN project_templates
    /\ project_templates["network.lan"] = "network"
  BY DEF project_templates, base_templates, SUPPORTED_TEMPLATES

AddedScript(p) == [q \in {p, ProjectFile} |->
    IF q = p THEN PlainText("stub")
    ELSE [File EXCEPT !.scripts = Append(@, p), !.startup = Joined(@, ScriptId[p])]]

LEMMA AddedScriptSafe ==
    ASSUME IsDirectory(files), Loads(files), NEW p, p = FirstFree(ScriptPaths, ScriptId),
           p # NoOne
    PROVE  /\ IsDirectory(AddedScript(p)) /\ ~Late(AddedScript(p))
           /\ SafeSave(files, AddedScript(p)) /\ SourcesOnly(files, AddedScript(p))
<1> DEFINE G == File
           F == [File EXCEPT !.scripts = Append(@, p), !.startup = Joined(@, ScriptId[p])]
           T == AddedScript(p)
           fs == Overlay(files, T, {p, ProjectFile})
           n == Len(G.scripts) + 1
           k == <<"script", n>>
           e == ScriptElement(p)
           R == ProjectRecipe(files)
           Q == ProjectRecipe(fs)
<1>1. /\ p \in Range(ScriptPaths) /\ p \in Inside \ {ProjectFile} /\ p \notin DOMAIN files
      /\ ScriptId[p] \notin Ids(R)
  BY FirstFreeIsFree, SourcesAssumption
<1>2. ScriptId[p] \in Identifier /\ ScriptTemplate[p] = "script.python" /\ p \in Path
  BY <1>1, SourcesAssumption
<1>3. /\ ProjectFile \in DOMAIN files /\ G.kind = "project" /\ IsProject(G)
      /\ G.nodes \in Seq(Path) /\ G.scripts \in Seq(Path) /\ G.others \in Seq(Path)
      /\ Range(G.nodes) \cap Range(G.scripts) = {}
      /\ \A q \in Range(G.nodes) : /\ q \in Inside \cap DOMAIN files /\ q # ProjectFile
                                  /\ files[q].kind = "node" /\ IsNode(files[q])
      /\ \A q \in Range(G.scripts) : /\ q \in Inside \cap DOMAIN files /\ q # ProjectFile
                                    /\ ScriptTemplate[q] # Unsupported
      /\ G.startup = EmptyBag \/ \A id \in DOMAIN G.startup : id \in Ids(R) /\ G.startup[id] = 1
  BY LoadedProject DEF File
<1>4. F = [kind |-> "project", header |-> G.header, nodes |-> G.nodes,
           scripts |-> Append(G.scripts, p), others |-> G.others,
           startup |-> Joined(G.startup, ScriptId[p])]
  <2>1. IsProject(G)
    BY <1>3
  <2>2. QED
    BY <2>1, WithScripts, Zenon
<1> HIDE DEF F
<1>5. /\ DOMAIN T = {p, ProjectFile} /\ T[p] = PlainText("stub") /\ T[ProjectFile] = F
      /\ T = [q \in DOMAIN T |-> T[q]]
  <2>1. T = [q \in {p, ProjectFile} |-> IF q = p THEN PlainText("stub") ELSE F]
    BY Zenon DEF AddedScript, F
  <2>2. QED
    BY <1>1, <2>1
<1>6. /\ \A q \in DOMAIN files \ {ProjectFile} : q # p /\ fs[q] = files[q]
      /\ fs[ProjectFile] = F
      /\ DOMAIN fs = DOMAIN files \cup {p}
  BY <1>1, <1>3, <1>5 DEF Overlay
<1>7. /\ Append(G.scripts, p) \in Seq(Path)
      /\ DOMAIN Append(G.scripts, p) = DOMAIN G.scripts \cup {n} /\ n \notin DOMAIN G.scripts
      /\ \A i \in DOMAIN G.scripts : Append(G.scripts, p)[i] = G.scripts[i]
      /\ Append(G.scripts, p)[n] = p
      /\ Range(Append(G.scripts, p)) = Range(G.scripts) \cup {p}
  BY <1>2, <1>3, AppendAt
<1>8. /\ F.kind = G.kind /\ F.header = G.header /\ F.others = G.others /\ F.nodes = G.nodes
      /\ F.scripts = Append(G.scripts, p) /\ F.startup = Joined(G.startup, ScriptId[p])
  BY <1>3, <1>4
<1>9. IsText(F) /\ IsText(PlainText("stub"))
  <2>1. IsProject(F)
    BY <1>1, <1>3, <1>4, <1>7 DEF IsProject
  <2>2. F.kind = "project"
    BY <1>4
  <2>3. QED
    BY <2>1, <2>2 DEF IsText, PlainText
<1>10. IsDirectory(T) /\ SourcesOnly(files, T)
  <2>1. IsDirectory(T)
    BY <1>1, <1>2, <1>5, <1>9, SourcesAssumption DEF IsDirectory
  <2>2. ProjectFile \in Range(Sources(File))
    BY <1>3, SourcesMembers
  <2>3. QED
    BY <1>1, <1>5, <2>1, <2>2 DEF SourcesOnly, File
<1> HIDE DEF T
<1>11. /\ DOMAIN R.elements = Places(G, G.nodes) /\ R.links = Links(NodesOf(files, G))
       /\ \A i \in DOMAIN G.nodes : R.elements[<<"node", i>>] = NodeElement(files[G.nodes[i]])
       /\ \A i \in DOMAIN G.scripts : R.elements[<<"script", i>>] = ScriptElement(G.scripts[i])
       /\ \A j \in DOMAIN R.elements : \/ \E i \in DOMAIN G.nodes : j = <<"node", i>>
                                      \/ \E i \in DOMAIN G.scripts : j = <<"script", i>>
  BY RecipeParts DEF File
<1>12. /\ DOMAIN Q.elements = Places(F, F.nodes) /\ Q.links = Links(NodesOf(fs, F))
       /\ \A i \in DOMAIN F.nodes : Q.elements[<<"node", i>>] = NodeElement(fs[F.nodes[i]])
       /\ \A i \in DOMAIN F.scripts : Q.elements[<<"script", i>>] = ScriptElement(F.scripts[i])
  <2>1. fs[ProjectFile] = F
    BY <1>6
  <2> HIDE DEF fs
  <2>2. QED
    BY <2>1, RecipeParts
<1> HIDE DEF fs, R, Q
<1>13. \A i \in DOMAIN G.nodes : fs[G.nodes[i]] = files[G.nodes[i]]
  BY <1>3, <1>6 DEF Range
<1>14. DOMAIN Q.elements = DOMAIN R.elements \cup {k} /\ k \notin DOMAIN R.elements
  BY <1>7, <1>8, <1>11, <1>12 DEF Places
<1>15. Q.elements[k] = e
  BY <1>7, <1>8, <1>12
<1>16. \A j \in DOMAIN R.elements : Q.elements[j] = R.elements[j]
  <2> SUFFICES ASSUME NEW j \in DOMAIN R.elements PROVE Q.elements[j] = R.elements[j]
    OBVIOUS
  <2>1. CASE \E i \in DOMAIN G.nodes : j = <<"node", i>>
    BY <1>8, <1>11, <1>12, <1>13, <2>1
  <2>2. CASE \E i \in DOMAIN G.scripts : j = <<"script", i>>
    BY <1>7, <1>8, <1>11, <1>12, <2>2
  <2>3. QED
    BY <1>11, <2>1, <2>2
<1>17. \A l \in Q.links : l \in R.links
  BY <1>8, <1>11, <1>12, <1>13, LinksOf, SMTT(30)
<1>18. /\ e.id = ScriptId[p] /\ e.assets = {AssetSeed(p, "valid", "copy")}
       /\ ValidElement(e)
  <2>1. /\ e.id = ScriptId[p] /\ e.templateId = "script.python" /\ e.weight = 20
        /\ e.command = "given" /\ e.env = "valid"
        /\ e.assets = {AssetSeed(p, "valid", "copy")}
    BY <1>2 DEF ScriptElement, Element
  <2>2. "script.python" \in DOMAIN project_templates
    BY TemplateNames DEF SUPPORTED_TEMPLATES
  <2>3. QED
    BY <1>2, <2>1, <2>2 DEF ValidElement
<1>19. \A asset \in e.assets : asset.source \in Inside \cap DOMAIN fs /\ asset.destination = "valid"
  BY <1>1, <1>6, <1>18 DEF AssetSeed
<1>20. F.startup = EmptyBag \/ \A id \in DOMAIN F.startup :
           id \in Ids(R) \cup {e.id} /\ F.startup[id] = 1
  <2> DEFINE ids == Ids(R)
             id == ScriptId[p]
  <2>1. G.startup = EmptyBag \/ \A x \in DOMAIN G.startup : x \in ids /\ G.startup[x] = 1
    BY <1>3
  <2>2. F.startup = Joined(G.startup, id) /\ e.id = id
    BY <1>8, <1>18
  <2> HIDE DEF ids, id
  <2>3. QED
    BY <2>1, <2>2, JoinedStartup DEF ids
<1>21. \A q \in Range(F.nodes) : q \in Inside \cap DOMAIN fs /\ fs[q].kind = "node"
  BY <1>3, <1>6, <1>8
<1>22. \A q \in Range(F.scripts) : q \in Inside \cap DOMAIN fs /\ ScriptTemplate[q] # Unsupported
  BY <1>1, <1>2, <1>3, <1>6, <1>7, <1>8, SourcesAssumption
<1>23. Extends(R, Q, k, e)
  <2>1. e.id \notin Ids(R)
    BY <1>1, <1>18
  <2>2. Q.header = R.header
    BY <1>6, <1>8, RecipeParts DEF Q, R, File
  <2> HIDE DEF e, k
  <2>3. QED
    BY <1>14, <1>15, <1>16, <1>17, <1>18, <2>1, <2>2 DEF Extends
<1>24. Loads(fs)
  <2>1. /\ ProjectFile \in DOMAIN fs /\ DOMAIN files \subseteq DOMAIN fs
        /\ F = fs[ProjectFile] /\ G = files[ProjectFile]
    BY <1>3, <1>6 DEF File
  <2>2. Extends(ProjectRecipe(files), ProjectRecipe(fs), k, e)
    BY <1>23 DEF R, Q
  <2>3. F.startup = EmptyBag \/ \A id \in DOMAIN F.startup :
            id \in Ids(ProjectRecipe(files)) \cup {e.id} /\ F.startup[id] = 1
    BY <1>20 DEF R
  <2> HIDE DEF G, e, k
  <2>4. QED
    BY <1>8, <1>19, <1>21, <1>22, <2>1, <2>2, <2>3, ExtendLoads, ZenonT(40)
<1>25. SafeSave(files, T)
  BY <1>1, <1>5, <1>24, TwoWrites DEF fs
<1>26. ~Late(T)
  <2>1. WriteOrder[p] < WriteOrder[ProjectFile] /\ WriteOrder \in [Path -> Nat]
    BY <1>1, SourcesAssumption
  <2>2. p \in Path /\ ProjectFile \in Path
    BY <1>2, SourcesAssumption
  <2>3. QED
    BY <1>5, <2>1, <2>2 DEF Late
<1>27. QED
  BY <1>10, <1>25, <1>26 DEF T

AddedNode(p) == [q \in {p, ProjectFile} |->
    IF q = p THEN Node(NodeId[p], "reticulum.python.backbone", TRUE, {}, "default",
                       SetToBag(FirstLan))
    ELSE [File EXCEPT !.nodes = Append(@, p), !.startup = Joined(@, NodeId[p])]]

\* The LAN that a new node is attached to is in the project.
LEMMA FirstLanIsLan ==
    ASSUME IsDirectory(files), Loads(files), NEW lan \in FirstLan
    PROVE  \E f \in Range(ProjectRecipe(files).elements) :
               f.id = lan /\ project_templates[f.templateId] = "network"
<1> DEFINE lans == {i \in DOMAIN File.nodes : /\ files[File.nodes[i]].enabled
                                               /\ files[File.nodes[i]].templateId = "network.lan"}
           R == ProjectRecipe(files)
           m == Min(lans)
<1>1. File.nodes \in Seq(Path)
  BY LoadedProject DEF File
<1>2. lans # {} /\ lan = files[File.nodes[m]].id
  BY DEF FirstLan
<1>3. lans \in SUBSET Nat
  BY <1>1
<1>4. m \in lans
  BY <1>2, <1>3, MinMember
<1> HIDE DEF m
<1>5. m \in DOMAIN File.nodes /\ files[File.nodes[m]].templateId = "network.lan"
  BY <1>4
<1>6. <<"node", m>> \in DOMAIN R.elements /\ R.elements[<<"node", m>>] = NodeElement(files[File.nodes[m]])
  BY <1>5, RecipeParts DEF Places, File
<1> HIDE DEF R
<1>7. R.elements[<<"node", m>>] \in Range(R.elements)
  BY <1>6 DEF Range
<1> DEFINE f == R.elements[<<"node", m>>]
<1>8. f.id = lan /\ project_templates[f.templateId] = "network"
  BY <1>2, <1>5, <1>6, NodeElementFields, TemplateNames
<1> HIDE DEF f
<1>9. QED
  BY <1>7, <1>8 DEF f, R

LEMMA AddedNodeSafe ==
    ASSUME IsDirectory(files), Loads(files), NEW p, p = FirstFree(NodePaths, NodeId), p # NoOne
    PROVE  /\ IsDirectory(AddedNode(p)) /\ ~Late(AddedNode(p))
           /\ SafeSave(files, AddedNode(p)) /\ SourcesOnly(files, AddedNode(p))
<1> DEFINE G == File
           F == [File EXCEPT !.nodes = Append(@, p), !.startup = Joined(@, NodeId[p])]
           N == Node(NodeId[p], "reticulum.python.backbone", TRUE, {}, "default",
                     SetToBag(FirstLan))
           T == AddedNode(p)
           fs == Overlay(files, T, {p, ProjectFile})
           n == Len(G.nodes) + 1
           k == <<"node", n>>
           e == NodeElement(N)
           R == ProjectRecipe(files)
           Q == ProjectRecipe(fs)
<1>1. /\ p \in Range(NodePaths) /\ p \in Inside \ {ProjectFile} /\ p \notin DOMAIN files
      /\ NodeId[p] \notin Ids(R)
  BY FirstFreeIsFree, SourcesAssumption
<1>2. NodeId[p] \in Identifier /\ p \in Path
  BY <1>1, SourcesAssumption
<1>3. /\ ProjectFile \in DOMAIN files /\ G.kind = "project" /\ IsProject(G)
      /\ G.nodes \in Seq(Path) /\ G.scripts \in Seq(Path) /\ G.others \in Seq(Path)
      /\ Range(G.nodes) \cap Range(G.scripts) = {}
      /\ \A q \in Range(G.nodes) : /\ q \in Inside \cap DOMAIN files /\ q # ProjectFile
                                  /\ files[q].kind = "node" /\ IsNode(files[q])
      /\ \A q \in Range(G.scripts) : /\ q \in Inside \cap DOMAIN files /\ q # ProjectFile
                                    /\ ScriptTemplate[q] # Unsupported
      /\ G.startup = EmptyBag \/ \A id \in DOMAIN G.startup : id \in Ids(R) /\ G.startup[id] = 1
  BY LoadedProject DEF File
<1>4. F = [kind |-> "project", header |-> G.header, nodes |-> Append(G.nodes, p),
           scripts |-> G.scripts, others |-> G.others,
           startup |-> Joined(G.startup, NodeId[p])]
  <2>1. IsProject(G)
    BY <1>3
  <2>2. QED
    BY <2>1, WithNodes, ZenonT(40)
<1>5. /\ N.kind = "node" /\ IsNode(N) /\ N.id = NodeId[p]
      /\ N.templateId = "reticulum.python.backbone" /\ N.assets = {} /\ N.weight = 100
      /\ N.command = "default" /\ N.env = "valid" /\ N.attachments = SetToBag(FirstLan)
  BY DEF Node, IsNode
<1> HIDE DEF F, N
<1>6. /\ DOMAIN T = {p, ProjectFile} /\ T[p] = N /\ T[ProjectFile] = F
      /\ T = [q \in DOMAIN T |-> T[q]]
  <2>1. T = [q \in {p, ProjectFile} |-> IF q = p THEN N ELSE F]
    BY Zenon DEF AddedNode, F, N
  <2>2. QED
    BY <1>1, <2>1
<1>7. /\ \A q \in DOMAIN files \ {ProjectFile} : q # p /\ fs[q] = files[q]
      /\ fs[ProjectFile] = F /\ fs[p] = N
      /\ DOMAIN fs = DOMAIN files \cup {p}
  BY <1>1, <1>3, <1>6 DEF Overlay
<1>8. /\ Append(G.nodes, p) \in Seq(Path)
      /\ DOMAIN Append(G.nodes, p) = DOMAIN G.nodes \cup {n} /\ n \notin DOMAIN G.nodes
      /\ \A i \in DOMAIN G.nodes : Append(G.nodes, p)[i] = G.nodes[i]
      /\ Append(G.nodes, p)[n] = p
      /\ Range(Append(G.nodes, p)) = Range(G.nodes) \cup {p}
  BY <1>2, <1>3, AppendAt
<1>9. /\ F.kind = G.kind /\ F.header = G.header /\ F.others = G.others
      /\ F.scripts = G.scripts
      /\ F.nodes = Append(G.nodes, p) /\ F.startup = Joined(G.startup, NodeId[p])
  BY <1>3, <1>4
<1>10. IsText(F) /\ IsText(N)
  <2>1. IsProject(F)
    BY <1>1, <1>3, <1>4, <1>8 DEF IsProject
  <2>2. F.kind = "project"
    BY <1>4
  <2>3. QED
    BY <1>5, <2>1, <2>2 DEF IsText
<1>11. IsDirectory(T) /\ SourcesOnly(files, T)
  <2>1. IsDirectory(T)
    BY <1>1, <1>2, <1>6, <1>10, SourcesAssumption DEF IsDirectory
  <2>2. ProjectFile \in Range(Sources(File))
    BY <1>3, SourcesMembers
  <2>3. QED
    BY <1>1, <1>6, <2>1, <2>2 DEF SourcesOnly, File
<1> HIDE DEF T
<1>12. /\ DOMAIN R.elements = Places(G, G.nodes) /\ R.links = Links(NodesOf(files, G))
       /\ \A i \in DOMAIN G.nodes : R.elements[<<"node", i>>] = NodeElement(files[G.nodes[i]])
       /\ \A i \in DOMAIN G.scripts : R.elements[<<"script", i>>] = ScriptElement(G.scripts[i])
       /\ \A j \in DOMAIN R.elements : \/ \E i \in DOMAIN G.nodes : j = <<"node", i>>
                                      \/ \E i \in DOMAIN G.scripts : j = <<"script", i>>
  BY RecipeParts DEF File
<1>13. /\ DOMAIN Q.elements = Places(F, F.nodes) /\ Q.links = Links(NodesOf(fs, F))
       /\ \A i \in DOMAIN F.nodes : Q.elements[<<"node", i>>] = NodeElement(fs[F.nodes[i]])
       /\ \A i \in DOMAIN F.scripts : Q.elements[<<"script", i>>] = ScriptElement(F.scripts[i])
  <2>1. fs[ProjectFile] = F
    BY <1>7
  <2> HIDE DEF fs
  <2>2. QED
    BY <2>1, RecipeParts
<1> HIDE DEF fs, R, Q
<1>14. \A i \in DOMAIN G.nodes : fs[G.nodes[i]] = files[G.nodes[i]]
  BY <1>3, <1>7 DEF Range
<1>15. DOMAIN Q.elements = DOMAIN R.elements \cup {k} /\ k \notin DOMAIN R.elements
  BY <1>8, <1>9, <1>12, <1>13 DEF Places
<1>16. Q.elements[k] = e
  BY <1>7, <1>8, <1>9, <1>13
<1>17. \A j \in DOMAIN R.elements : Q.elements[j] = R.elements[j]
  <2> SUFFICES ASSUME NEW j \in DOMAIN R.elements PROVE Q.elements[j] = R.elements[j]
    OBVIOUS
  <2>1. CASE \E i \in DOMAIN G.nodes : j = <<"node", i>>
    BY <1>8, <1>9, <1>12, <1>13, <1>14, <2>1
  <2>2. CASE \E i \in DOMAIN G.scripts : j = <<"script", i>>
    BY <1>9, <1>12, <1>13, <2>2
  <2>3. QED
    BY <1>12, <2>1, <2>2
<1>18. /\ e.id = NodeId[p] /\ e.assets = {} /\ ValidElement(e)
  <2>1. /\ e.id = NodeId[p] /\ e.templateId = "reticulum.python.backbone" /\ e.weight = 100
        /\ e.command = "default" /\ e.env = "valid" /\ e.assets = {}
    BY <1>5, NodeElementFields
  <2>2. "reticulum.python.backbone" \in DOMAIN project_templates
    BY TemplateNames DEF SUPPORTED_TEMPLATES
  <2>3. QED
    BY <1>2, <2>1, <2>2 DEF ValidElement
<1>19. ASSUME NEW l \in Q.links, l \notin R.links
       PROVE  /\ l.element = e.id /\ l.times = 1
              /\ \E f \in Range(R.elements) :
                     f.id = l.network /\ project_templates[f.templateId] = "network"
  <2>1. PICK i \in DOMAIN F.nodes : \E lan \in DOMAIN fs[F.nodes[i]].attachments :
            l = [element |-> fs[F.nodes[i]].id, network |-> lan,
                 times |-> fs[F.nodes[i]].attachments[lan]]
    BY <1>13, LinksOf
  <2>2. i \notin DOMAIN G.nodes
    <3> SUFFICES ASSUME i \in DOMAIN G.nodes PROVE FALSE
      OBVIOUS
    <3>1. F.nodes[i] = G.nodes[i] /\ fs[G.nodes[i]] = files[G.nodes[i]]
      BY <1>8, <1>9, <1>14
    <3>2. \E lan \in DOMAIN files[G.nodes[i]].attachments :
            l = [element |-> files[G.nodes[i]].id, network |-> lan,
                 times |-> files[G.nodes[i]].attachments[lan]]
      BY <2>1, <3>1
    <3>3. l \in R.links
      BY <1>12, <3>2, LinksOf
    <3>4. QED
      BY <1>19, <3>3
  <2>3. F.nodes[i] = p
    BY <1>8, <1>9, <2>2
  <2>4. PICK lan \in FirstLan : l = [element |-> NodeId[p], network |-> lan,
                                    times |-> SetToBag(FirstLan)[lan]]
    BY <1>5, <1>7, <2>1, <2>3, BagOfSet
  <2>5. l.element = e.id /\ l.times = 1 /\ l.network = lan
    BY <1>18, <2>4, BagOfSet
  <2>6. \E f \in Range(R.elements) : f.id = lan /\ project_templates[f.templateId] = "network"
    BY FirstLanIsLan DEF R
  <2>7. QED
    BY <2>5, <2>6
<1>20. F.startup = EmptyBag \/ \A id \in DOMAIN F.startup :
           id \in Ids(R) \cup {e.id} /\ F.startup[id] = 1
  <2> DEFINE ids == Ids(R)
             id == NodeId[p]
  <2>1. G.startup = EmptyBag \/ \A x \in DOMAIN G.startup : x \in ids /\ G.startup[x] = 1
    BY <1>3
  <2>2. F.startup = Joined(G.startup, id) /\ e.id = id
    BY <1>9, <1>18
  <2> HIDE DEF ids, id
  <2>3. QED
    BY <2>1, <2>2, JoinedStartup DEF ids
<1>21. \A q \in Range(F.nodes) : q \in Inside \cap DOMAIN fs /\ fs[q].kind = "node"
  BY <1>1, <1>3, <1>5, <1>7, <1>8, <1>9
<1>22. \A q \in Range(F.scripts) : q \in Inside \cap DOMAIN fs /\ ScriptTemplate[q] # Unsupported
  BY <1>3, <1>7, <1>9
<1>23. Extends(R, Q, k, e)
  <2>1. e.id \notin Ids(R)
    BY <1>1, <1>18
  <2>2. Q.header = R.header
    BY <1>7, <1>9, RecipeParts DEF Q, R, File
  <2> HIDE DEF e, k
  <2>3. QED
    BY <1>15, <1>16, <1>17, <1>18, <1>19, <2>1, <2>2 DEF Extends
<1>24. Loads(fs)
  <2>1. /\ ProjectFile \in DOMAIN fs /\ DOMAIN files \subseteq DOMAIN fs
        /\ F = fs[ProjectFile] /\ G = files[ProjectFile]
    BY <1>3, <1>7 DEF File
  <2>2. Extends(ProjectRecipe(files), ProjectRecipe(fs), k, e)
    BY <1>23 DEF R, Q
  <2>3. F.startup = EmptyBag \/ \A id \in DOMAIN F.startup :
            id \in Ids(ProjectRecipe(files)) \cup {e.id} /\ F.startup[id] = 1
    BY <1>20 DEF R
  <2>4. e.assets = {}
    BY <1>18
  <2> HIDE DEF G, e, k
  <2>5. QED
    BY <1>9, <1>21, <1>22, <2>1, <2>2, <2>3, <2>4, ExtendLoads
<1>25. SafeSave(files, T)
  BY <1>1, <1>6, <1>24, TwoWrites DEF fs
<1>26. ~Late(T)
  <2>1. WriteOrder[p] < WriteOrder[ProjectFile] /\ WriteOrder \in [Path -> Nat]
    BY <1>1, SourcesAssumption
  <2>2. p \in Path /\ ProjectFile \in Path
    BY <1>2, SourcesAssumption
  <2>3. QED
    BY <1>6, <2>1, <2>2 DEF Late
<1>27. QED
  BY <1>11, <1>25, <1>26 DEF T

--------------------------------------------------------------------------------
(***************************************************************************)
(* The Nodes editor's edits.                                               *)
(***************************************************************************)

\* The texts that editor::apply writes for a result.
Changed(result) == {ProjectFile} \cup {p \in DOMAIN result :
                                         p \in DOMAIN files => result[p] # files[p]}

Texts(result) == [p \in Changed(result) |-> result[p]]

\* A result is a directory in which only sources have changed and new files are added.
EditResult(result) ==
    /\ IsDirectory(result) /\ DOMAIN files \subseteq DOMAIN result
    /\ \A p \in DOMAIN files : result[p] # files[p] => p \in Range(Sources(File))

LEMMA TextsOfResult ==
    ASSUME IsDirectory(files), Loads(files), NEW result, EditResult(result)
    PROVE  /\ IsDirectory(Texts(result)) /\ ProjectFile \in DOMAIN Texts(result)
           /\ SourcesOnly(files, Texts(result))
           /\ Overlay(files, Texts(result), DOMAIN Texts(result)) = result
<1> DEFINE T == Texts(result)
           O == Overlay(files, T, DOMAIN T)
<1>1. ProjectFile \in DOMAIN files /\ File.nodes \in Seq(Path) /\ File.scripts \in Seq(Path)
  BY LoadedProject DEF File
<1>2. /\ DOMAIN T = Changed(result) /\ DOMAIN T \subseteq DOMAIN result
      /\ \A p \in DOMAIN T : T[p] = result[p]
      /\ T = [p \in DOMAIN T |-> T[p]]
  BY <1>1 DEF Texts, Changed, EditResult
<1> HIDE DEF T
<1>3. IsDirectory(T) /\ ProjectFile \in DOMAIN T
  BY <1>2 DEF EditResult, IsDirectory, Changed
<1>4. SourcesOnly(files, T)
  BY <1>1, <1>2, SourcesMembers DEF SourcesOnly, EditResult, Changed, File
<1>5. DOMAIN O = DOMAIN result
  BY <1>2 DEF Overlay, EditResult, Changed
<1>6. \A p \in DOMAIN result : O[p] = result[p]
  BY <1>2 DEF Overlay, EditResult, Changed
<1>7. IsDirectory(O) /\ IsDirectory(result)
  BY <1>3, OverlayDirectory DEF EditResult
<1> HIDE DEF O
<1>8. O = result
  BY <1>5, <1>6, <1>7, SameDirectory
<1>9. QED
  BY <1>3, <1>4, <1>8 DEF T, O

\* With the project file as it was, any of the other texts may be in place when they
\* leave the elements as they were and attach no more.
LEMMA MixtureLoads ==
    ASSUME IsDirectory(files), Loads(files), NEW result, EditResult(result),
           NEW S \in SUBSET Changed(result), ProjectFile \notin S,
           \A q \in Range(File.nodes) \cap S :
               /\ result[q].kind = "node" /\ NodeElement(result[q]) = NodeElement(files[q])
               /\ Within(result[q].attachments, files[q].attachments)
    PROVE  Loads(Overlay(files, Texts(result), S))
<1> DEFINE fs == Overlay(files, Texts(result), S)
<1>1. /\ ProjectFile \in DOMAIN files
      /\ \A q \in Range(File.nodes) : q \in DOMAIN files /\ files[q].kind = "node"
      /\ File.startup = EmptyBag \/ \A id \in DOMAIN File.startup :
             id \in Ids(ProjectRecipe(files)) /\ File.startup[id] = 1
  BY LoadedProject DEF File
<1>2. /\ DOMAIN fs = DOMAIN files \cup S
      /\ \A q \in S : fs[q] = result[q]
      /\ \A q \in DOMAIN files \ S : fs[q] = files[q]
  BY DEF Overlay, Texts
<1> HIDE DEF fs
<1>3. fs[ProjectFile] = File
  BY <1>1, <1>2 DEF File
<1>4. \A q \in Range(files[ProjectFile].nodes) :
          /\ fs[q].kind = "node" /\ NodeElement(fs[q]) = NodeElement(files[q])
          /\ Within(fs[q].attachments, files[q].attachments)
  BY <1>1, <1>2, WithinItself DEF File
<1>5. SameIncludes(fs[ProjectFile], files[ProjectFile])
  BY <1>3 DEF SameIncludes, File
<1>6. fs[ProjectFile].startup = EmptyBag \/ \A id \in DOMAIN fs[ProjectFile].startup :
          id \in Ids(ProjectRecipe(files)) /\ fs[ProjectFile].startup[id] = 1
  BY <1>1, <1>3
<1>7. ProjectFile \in DOMAIN fs /\ DOMAIN files \subseteq DOMAIN fs
  BY <1>1, <1>2
<1>8. Loads(fs)
  BY <1>4, <1>5, <1>6, <1>7, LoadsLike
<1>9. QED
  BY <1>8 DEF fs

\* What the editor accepts loads when it is in place.
LEMMA AcceptedLoads ==
    ASSUME NEW fs, EditorAccepts(fs), ProjectFile \in DOMAIN fs,
           fs[ProjectFile].kind = "project",
           \A p \in Range(fs[ProjectFile].nodes) :
               p \in Inside \cap DOMAIN fs /\ fs[p].kind = "node"
    PROVE  Loads(fs)
  BY DEF EditorAccepts, Loads, Resolves

\* The guest takes what the editor accepts, if each node comes from a project that it
\* took or is one that can be submitted.
LEMMA GuestTakes ==
    ASSUME NEW fs, NEW gs, IsDirectory(fs), Loads(fs), EditorAccepts(fs),
           GuestAccepts(ProjectRecipe(gs)),
           \A p \in Range(fs[ProjectFile].nodes) :
               \/ /\ fs[p].templateId \in SUPPORTED_TEMPLATES
                  /\ \A asset \in fs[p].assets : asset.mode = "copy"
               \/ \E q \in Range(gs[ProjectFile].nodes) :
                      fs[p].templateId = gs[q].templateId /\ fs[p].assets = gs[q].assets
    PROVE  GuestAccepts(ProjectRecipe(fs))
<1> DEFINE F == fs[ProjectFile]
           G == gs[ProjectFile]
           Q == ProjectRecipe(fs)
           R == ProjectRecipe(gs)
           Fit(e) == /\ e.templateId \in SUPPORTED_TEMPLATES
                     /\ \A asset \in e.assets : asset.mode = "copy"
<1>1. /\ DOMAIN Q.elements = Places(F, F.nodes) /\ Q.links = Links(NodesOf(fs, F))
      /\ \A i \in DOMAIN F.nodes : Q.elements[<<"node", i>>] = NodeElement(fs[F.nodes[i]])
      /\ \A i \in DOMAIN F.scripts : Q.elements[<<"script", i>>] = ScriptElement(F.scripts[i])
      /\ \A j \in DOMAIN Q.elements : \/ \E i \in DOMAIN F.nodes : j = <<"node", i>>
                                     \/ \E i \in DOMAIN F.scripts : j = <<"script", i>>
  BY RecipeParts
<1>2. /\ DOMAIN R.elements = Places(G, G.nodes)
      /\ \A i \in DOMAIN G.nodes : R.elements[<<"node", i>>] = NodeElement(gs[G.nodes[i]])
  BY RecipeParts
<1>3. /\ \A p \in Range(F.scripts) : p \in Path /\ ScriptTemplate[p] # Unsupported
      /\ validate_recipe(Q)
  BY LoadedProject, LoadsUnfold DEF IsDirectory
<1>4. Cardinality(DOMAIN Q.elements) <= MaxElements
  BY DEF EditorAccepts
<1>5. \A i \in DOMAIN F.nodes : fs[F.nodes[i]].templateId = "network.lan" =>
          fs[F.nodes[i]].attachments = EmptyBag
  <2>1. DOMAIN NodesOf(fs, F) = DOMAIN F.nodes
        /\ \A i \in DOMAIN F.nodes : NodesOf(fs, F)[i] = fs[F.nodes[i]]
    BY DEF NodesOf
  <2>2. \A i \in DOMAIN F.nodes : fs[F.nodes[i]] \in Range(NodesOf(fs, F))
    BY <2>1 DEF Range
  <2>3. QED
    BY <2>2 DEF EditorAccepts
<1>6. \A e \in Range(R.elements) : Fit(e)
  BY DEF GuestAccepts
<1>7. \A p \in Range(F.nodes) : Fit(fs[p]) \/ \E q \in Range(G.nodes) :
          fs[p].templateId = gs[q].templateId /\ fs[p].assets = gs[q].assets
  OBVIOUS
<1> HIDE DEF Q, R, F, G
<1>8. \A q \in Range(G.nodes) : Fit(gs[q])
  <2> SUFFICES ASSUME NEW i \in DOMAIN G.nodes PROVE Fit(gs[G.nodes[i]])
    BY DEF Range
  <2>1. <<"node", i>> \in DOMAIN R.elements
    BY <1>2 DEF Places
  <2>2. NodeElement(gs[G.nodes[i]]) \in Range(R.elements)
    BY <1>2, <2>1 DEF Range
  <2>3. QED
    BY <1>6, <2>2, NodeElementFields
<1>9. \A p \in Range(F.nodes) : Fit(fs[p])
  BY <1>7, <1>8
<1>10. \A p \in Range(F.scripts) : Fit(ScriptElement(p))
  <2> SUFFICES ASSUME NEW p \in Range(F.scripts) PROVE Fit(ScriptElement(p))
    OBVIOUS
  <2>1. ScriptTemplate[p] \in {"script.python", "script.bash"}
    BY <1>3, SourcesAssumption
  <2>2. /\ ScriptElement(p).templateId = ScriptTemplate[p]
        /\ ScriptElement(p).assets = {AssetSeed(p, "valid", "copy")}
    BY DEF ScriptElement, Element
  <2>3. QED
    BY <2>1, <2>2 DEF SUPPORTED_TEMPLATES, AssetSeed
<1>11. \A e \in Range(Q.elements) : Fit(e)
  <2> SUFFICES ASSUME NEW j \in DOMAIN Q.elements PROVE Fit(Q.elements[j])
    BY DEF Range
  <2>1. CASE \E i \in DOMAIN F.nodes : j = <<"node", i>>
    BY <1>1, <1>9, <2>1, NodeElementFields DEF Range
  <2>2. CASE \E i \in DOMAIN F.scripts : j = <<"script", i>>
    BY <1>1, <1>10, <2>2 DEF Range
  <2>3. QED
    BY <1>1, <2>1, <2>2
<1> DEFINE lans == {e \in Range(Q.elements) : e.enabled /\ e.templateId = "network.lan"}
<1>12. ASSUME NEW l \in Q.links, {l.element, l.network} \subseteq {e.id : e \in lans}
       PROVE  FALSE
  <2>1. PICK i \in DOMAIN F.nodes : \E lan \in DOMAIN fs[F.nodes[i]].attachments :
            l = [element |-> fs[F.nodes[i]].id, network |-> lan,
                 times |-> fs[F.nodes[i]].attachments[lan]]
    BY <1>1, LinksOf
  <2>2. l.element = fs[F.nodes[i]].id /\ DOMAIN fs[F.nodes[i]].attachments # {}
    BY <2>1
  <2>3. PICK e \in lans : e.id = l.element
    BY <1>12
  <2>4. PICK j \in DOMAIN Q.elements : Q.elements[j] = e
    BY <2>3 DEF Range
  <2>5. <<"node", i>> \in DOMAIN Q.elements
    BY <1>1 DEF Places
  <2>6. Q.elements[<<"node", i>>].id = Q.elements[j].id
    BY <1>1, <2>2, <2>3, <2>4, NodeElementFields
  <2>7. j = <<"node", i>>
    BY <1>3, <2>5, <2>6 DEF validate_recipe
  <2>8. e.templateId = "network.lan"
    BY <2>3
  <2>9. fs[F.nodes[i]].templateId = "network.lan"
    BY <1>1, <2>4, <2>7, <2>8, NodeElementFields
  <2>10. DOMAIN EmptyBag = {}
    BY DEF EmptyBag, SetToBag
  <2>11. QED
    BY <1>5, <2>2, <2>9, <2>10
<1>13. GuestAccepts(Q)
  BY <1>4, <1>11, <1>12 DEF GuestAccepts
<1>14. QED
  BY <1>13 DEF Q

Comes(result) == \A p \in Range(result[ProjectFile].nodes) :
    \/ /\ result[p].templateId \in SUPPORTED_TEMPLATES
       /\ \A asset \in result[p].assets : asset.mode = "copy"
    \/ \E q \in Range(File.nodes) : /\ result[p].templateId = files[q].templateId
                                    /\ result[p].assets = files[q].assets

Partly(result) == \A S \in SUBSET Changed(result) :
    ProjectFile \notin S => Loads(Overlay(files, Texts(result), S))

Saves(result) ==
    EditResult(result) /\ SafeSave(files, Texts(result)) /\ GuestSafe(files, Texts(result))

LEMMA SavesResult ==
    ASSUME IsDirectory(files), Loads(files), NEW result, EditResult(result),
           EditorAccepts(result), Loads(result), Partly(result), Comes(result)
    PROVE  Saves(result)
<1> DEFINE T == Texts(result)
<1>1. DOMAIN T = Changed(result) /\ Overlay(files, T, DOMAIN T) = result
  BY TextsOfResult DEF Texts
<1> HIDE DEF T
<1>2. SafeSave(files, T)
  BY <1>1 DEF SafeSave, Cuts, Partly, T
<1>3. GuestSafe(files, T)
  <2> SUFFICES ASSUME GuestAccepts(ProjectRecipe(files)) PROVE GuestAccepts(ProjectRecipe(result))
    BY <1>1 DEF GuestSafe
  <2>1. IsDirectory(result)
    BY DEF EditResult
  <2>2. \A p \in Range(result[ProjectFile].nodes) :
            \/ /\ result[p].templateId \in SUPPORTED_TEMPLATES
               /\ \A asset \in result[p].assets : asset.mode = "copy"
            \/ \E q \in Range(files[ProjectFile].nodes) :
                   result[p].templateId = files[q].templateId /\ result[p].assets = files[q].assets
    BY DEF Comes, File
  <2>3. QED
    BY <2>1, <2>2, GuestTakes
<1>4. QED
  BY <1>2, <1>3 DEF Saves, T

LEMMA NodeFields ==
    ASSUME NEW b, IsNode(b)
    PROVE  /\ b = [kind |-> "node", id |-> b.id, templateId |-> b.templateId,
                   enabled |-> b.enabled, assets |-> b.assets, weight |-> b.weight,
                   command |-> b.command, env |-> b.env, attachments |-> b.attachments]
           /\ DOMAIN b = {"kind", "id", "templateId", "enabled", "assets", "weight",
                          "command", "env", "attachments"}
           /\ b.kind = "node"
<1>1. b = [kind |-> "node", id |-> b.id, templateId |-> b.templateId,
           enabled |-> b.enabled, assets |-> b.assets, weight |-> b.weight,
           command |-> b.command, env |-> b.env, attachments |-> b.attachments]
  BY DEF IsNode
<1>2. QED
  BY <1>1

LEMMA DetachedNode ==
    ASSUME NEW b, IsNode(b), NEW x
    PROVE  LET n == [b EXCEPT !.attachments = x] IN
           IsNode(n) /\ n.kind = "node" /\ NodeElement(n) = NodeElement(b) /\ n.attachments = x
<1> DEFINE n == [b EXCEPT !.attachments = x]
<1>1. n = [kind |-> "node", id |-> b.id, templateId |-> b.templateId,
           enabled |-> b.enabled, assets |-> b.assets, weight |-> b.weight,
           command |-> b.command, env |-> b.env, attachments |-> x]
  BY NodeFields
<1> HIDE DEF n
<1>2. IsNode(n) /\ n.kind = "node" /\ NodeElement(n) = NodeElement(b) /\ n.attachments = x
  BY <1>1 DEF IsNode, NodeElement
<1>3. QED
  BY <1>2, Zenon DEF n

LEMMA FilledNode ==
    ASSUME NEW b, IsNode(b), NEW t, NEW on, NEW c, NEW lans
    PROVE  IsNode(Filled(b, t, on, c, lans)) /\ Filled(b, t, on, c, lans).id = b.id
<1> DEFINE n1 == [b EXCEPT !.templateId = t]
           n2 == [n1 EXCEPT !.enabled = on]
           n3 == [n2 EXCEPT !.command = c]
           n4 == [n3 EXCEPT !.attachments = SetToBag(lans)]
<1>1. IsNode(n1) /\ n1.id = b.id
  BY NodeFields DEF IsNode
<1> HIDE DEF n1
<1>2. IsNode(n2) /\ n2.id = b.id
  BY <1>1, NodeFields DEF IsNode
<1> HIDE DEF n2
<1>3. IsNode(n3) /\ n3.id = b.id
  BY <1>2, NodeFields DEF IsNode
<1> HIDE DEF n3
<1>4. IsNode(n4) /\ n4.id = b.id
  BY <1>3, NodeFields DEF IsNode
<1>5. QED
  BY <1>4, Zenon DEF n1, n2, n3, Filled

\* What the form submits.
LEMMA FormNodesAreNodes ==
    ASSUME NEW b, IsNode(b), NEW lans, NEW n \in FormNodes(b, lans)
    PROVE  IsNode(n) /\ n.id = b.id
<1>1. PICK t, on, c, chosen : n = Filled(b, t, on, c, chosen)
  BY DEF FormNodes
<1>2. QED
  BY <1>1, FilledNode

Known(node) == \E i \in DOMAIN File.nodes : files[File.nodes[i]].id = node.id

LEMMA EditCases ==
    ASSUME IsDirectory(files), Loads(files), NEW edit \in Edits(SnapshotOf(files))
    PROVE  \/ edit.kind = "new" /\ IsNode(edit.node)
           \/ edit.kind = "save" /\ IsNode(edit.node) /\ Known(edit.node)
           \/ edit.kind = "remove" /\ Known(edit.node)
           \/ /\ edit.kind = "script" /\ edit.path \in Range(File.scripts)
              /\ edit.text.kind = "text"
<1> DEFINE s == SnapshotOf(files)
           nodes == Shown(s)
<1>1. /\ File.nodes \in Seq(Path) /\ File.scripts \in Seq(Path)
      /\ \A p \in Range(File.nodes) : IsNode(files[p])
  BY LoadedProject DEF File
<1>2. /\ s.project = File
      /\ \A p \in Range(File.nodes) : s.sources[p] = files[p]
  BY <1>1, SourcesMembers DEF SnapshotOf, File
<1>3. \A o \in nodes : IsNode(o) /\ Known(o)
  BY <1>1, <1>2 DEF Known, Range, Shown
<1> HIDE DEF s
<1>4. edit \in Edits(s)
  BY DEF s
<1> DEFINE new == UNION {FormNodes(NewNode(id), LanIds(nodes)) : id \in FormIds}
           save == UNION {FormNodes(o, LanIds(nodes \ {o})) : o \in nodes}
           texts == {PlainText(t) : t \in ScriptTexts}
<1>5. edit \in [kind : {"new"}, node : new] \cup [kind : {"save"}, node : save]
               \cup [kind : {"remove"}, node : nodes]
               \cup [kind : {"script"}, path : Range(s.project.scripts), text : texts]
  BY <1>4, Zenon DEF Edits
<1>6. \A n \in new : IsNode(n)
  <2> SUFFICES ASSUME NEW id, NEW n \in FormNodes(NewNode(id), LanIds(nodes)) PROVE IsNode(n)
    OBVIOUS
  <2>1. IsNode(NewNode(id))
    BY DEF NewNode, Node, IsNode
  <2>2. QED
    BY <2>1, FormNodesAreNodes
<1>7. \A n \in save : IsNode(n) /\ Known(n)
  <2> SUFFICES ASSUME NEW o \in nodes, NEW n \in FormNodes(o, LanIds(nodes \ {o}))
               PROVE  IsNode(n) /\ Known(n)
    OBVIOUS
  <2>1. QED
    BY <1>3, FormNodesAreNodes DEF Known
<1>8. \A t \in texts : t.kind = "text"
  BY DEF PlainText
<1> HIDE DEF new, save, texts, nodes
<1>9. QED
  BY <1>2, <1>3, <1>5, <1>6, <1>7, <1>8


\* What the project file includes is a source.
LEMMA Included ==
    ASSUME IsDirectory(files), Loads(files)
    PROVE  Range(Sources(File)) = {ProjectFile} \cup Range(File.nodes) \cup Range(File.scripts)
<1>1. File.nodes \in Seq(Path) /\ File.scripts \in Seq(Path)
  BY LoadedProject DEF File
<1>2. QED
  BY <1>1, SourcesMembers

LEMMA ScriptSaves ==
    ASSUME IsDirectory(files), Loads(files), NEW edit, edit.kind = "script",
           edit.path \in Range(File.scripts), edit.text.kind = "text",
           EditorAccepts(Edited(edit))
    PROVE  Saves(Edited(edit))
<1> DEFINE p == edit.path
           result == EditedScript(edit)
<1>1. Edited(edit) = result
  BY DEF Edited
<1>2. /\ ProjectFile \in DOMAIN files /\ File.kind = "project"
      /\ Range(File.nodes) \cap Range(File.scripts) = {}
      /\ \A q \in Range(File.nodes) : /\ q \in Inside \cap DOMAIN files /\ files[q].kind = "node"
      /\ p \in DOMAIN files /\ p # ProjectFile /\ p \in Path
  BY LoadedProject DEF File, IsDirectory
<1>3. /\ DOMAIN result = DOMAIN files
      /\ \A q \in DOMAIN files \ {p} : result[q] = files[q]
  <2>1. result = Put(files, p, edit.text)
    BY DEF EditedScript
  <2> HIDE DEF result, p
  <2>2. /\ DOMAIN result = DOMAIN files \cup {p}
        /\ \A q \in DOMAIN files \ {p} : result[q] = files[q]
    BY <2>1 DEF Put
  <2>3. QED
    BY <1>2, <2>2
<1>4. EditResult(result)
  <2>1. IsText(edit.text)
    BY DEF IsText
  <2>2. IsDirectory(result)
    BY <1>2, <2>1, PutDirectory DEF EditedScript
  <2>3. p \in Range(Sources(File))
    BY Included
  <2>4. QED
    BY <1>3, <2>2, <2>3 DEF EditResult
<1>5. result[ProjectFile] = File /\ \A q \in Range(File.nodes) : result[q] = files[q]
  BY <1>2, <1>3 DEF File
<1> HIDE DEF result
<1>6. Loads(result)
  BY <1>1, <1>2, <1>3, <1>5, AcceptedLoads
<1>7. Comes(result)
  BY <1>5 DEF Comes
<1>8. Partly(result)
  <2> SUFFICES ASSUME NEW S \in SUBSET Changed(result), ProjectFile \notin S
               PROVE  Loads(Overlay(files, Texts(result), S))
    BY DEF Partly
  <2>1. \A q \in Range(File.nodes) \cap S :
            /\ result[q].kind = "node" /\ NodeElement(result[q]) = NodeElement(files[q])
            /\ Within(result[q].attachments, files[q].attachments)
    BY <1>2, <1>5, WithinItself
  <2>2. QED
    BY <1>4, <2>1, MixtureLoads
<1>9. QED
  BY <1>1, <1>4, <1>6, <1>7, <1>8, SavesResult

\* The project file of a node edit, and its fields.
Order(edit, p) ==
    LET id == edit.node.id IN
    CASE ~edit.node.enabled -> Without(File.startup, id)
      [] edit.node.enabled /\ (edit.kind = "new" \/ ~files[p].enabled) -> Joined(File.startup, id)
      [] OTHER -> File.startup

LEMMA NewNodeSaves ==
    ASSUME IsDirectory(files), Loads(files), NEW edit, edit.kind = "new", IsNode(edit.node),
           Submittable(edit.node), FirstFree(NodePaths, NodeId) # NoOne,
           EditorAccepts(Edited(edit))
    PROVE  Saves(Edited(edit))
<1> DEFINE p == FirstFree(NodePaths, NodeId)
           node == edit.node
           G == File
           F == [G EXCEPT !.nodes = Append(G.nodes, p), !.startup = Order(edit, p)]
           fs == Put(files, p, node)
           result == Put(fs, ProjectFile, F)
<1>1. Edited(edit) = result
  <2>1. EditedNode(edit) = result
    BY DEF EditedNode, Order
  <2>2. QED
    BY <2>1 DEF Edited
<1>2. p \in Inside \ {ProjectFile} /\ p \notin DOMAIN files /\ p \in Path
  BY FirstFreeIsFree, SourcesAssumption
<1>3. /\ ProjectFile \in DOMAIN files /\ IsProject(G) /\ G.kind = "project"
      /\ G.nodes \in Seq(Path) /\ Range(G.nodes) \cap Range(G.scripts) = {}
      /\ {G.nodes, G.scripts, G.others} \subseteq Seq(Path)
      /\ \A q \in Range(G.nodes) : /\ q \in Inside \cap DOMAIN files /\ q # ProjectFile
                                  /\ files[q].kind = "node"
      /\ \A q \in Range(G.scripts) : q \in DOMAIN files
  BY LoadedProject DEF File
<1>4. F = [kind |-> "project", header |-> G.header, nodes |-> Append(G.nodes, p),
           scripts |-> G.scripts, others |-> G.others, startup |-> Order(edit, p)]
  BY <1>3, WithNodes, Zenon
<1> HIDE DEF F, p
<1>5. Append(G.nodes, p) \in Seq(Path) /\ Range(Append(G.nodes, p)) = Range(G.nodes) \cup {p}
  BY <1>2, <1>3, AppendAt
<1>6. IsText(F) /\ F.kind = "project" /\ Range(F.nodes) = Range(G.nodes) \cup {p}
  <2>1. IsProject(F)
    BY <1>2, <1>3, <1>4, <1>5 DEF IsProject
  <2>2. QED
    BY <1>4, <1>5, <2>1 DEF IsText
<1>7. /\ DOMAIN result = DOMAIN files \cup {p} /\ result[ProjectFile] = F
      /\ result[p] = node /\ \A q \in DOMAIN files \ {ProjectFile} : result[q] = files[q]
  <2>1. /\ DOMAIN fs = DOMAIN files \cup {p} /\ fs[p] = node
        /\ \A q \in DOMAIN files \ {p} : fs[q] = files[q]
    BY DEF Put
  <2> HIDE DEF fs
  <2>2. /\ DOMAIN result = DOMAIN fs \cup {ProjectFile} /\ result[ProjectFile] = F
        /\ \A q \in DOMAIN fs \ {ProjectFile} : result[q] = fs[q]
    BY DEF Put
  <2> HIDE DEF result
  <2>3. QED
    BY <1>2, <1>3, <2>1, <2>2
<1>8. EditResult(result)
  <2>1. IsText(node)
    BY NodeFields DEF IsText
  <2>2. IsDirectory(result)
    BY <1>2, <1>6, <2>1, PutDirectory, SourcesAssumption
  <2> HIDE DEF result
  <2>3. ProjectFile \in Range(Sources(File))
    BY Included
  <2>4. QED
    BY <1>7, <2>2, <2>3 DEF EditResult
<1> HIDE DEF result
<1>9. node.kind = "node"
  BY NodeFields
<1>10. \A q \in Range(G.nodes) : result[q] = files[q]
  BY <1>3, <1>7
<1>11. Loads(result)
  <2>1. \A q \in Range(result[ProjectFile].nodes) :
            q \in Inside \cap DOMAIN result /\ result[q].kind = "node"
    BY <1>2, <1>3, <1>6, <1>7, <1>9, <1>10
  <2>2. QED
    BY <1>1, <1>3, <1>6, <1>7, <2>1, AcceptedLoads
<1>12. Comes(result)
  BY <1>6, <1>7, <1>10 DEF Comes, Submittable
<1>13. Partly(result)
  <2> SUFFICES ASSUME NEW S \in SUBSET Changed(result), ProjectFile \notin S
               PROVE  Loads(Overlay(files, Texts(result), S))
    BY DEF Partly
  <2>1. \A q \in Range(File.nodes) \cap S :
            /\ result[q].kind = "node" /\ NodeElement(result[q]) = NodeElement(files[q])
            /\ Within(result[q].attachments, files[q].attachments)
    BY <1>3, <1>10, WithinItself
  <2>2. QED
    BY <1>8, <2>1, MixtureLoads
<1>14. QED
  BY <1>1, <1>8, <1>11, <1>12, <1>13, SavesResult

LEMMA PlaceOfKnown ==
    ASSUME NEW node, Known(node)
    PROVE  PlaceOf(node.id) \in DOMAIN File.nodes /\ files[File.nodes[PlaceOf(node.id)]].id = node.id
  BY DEF PlaceOf, Known

\* The ids of a project, while its includes stay and its nodes keep their ids.
LEMMA SameIds ==
    ASSUME NEW fs, NEW gs, fs[ProjectFile].nodes = gs[ProjectFile].nodes,
           fs[ProjectFile].scripts = gs[ProjectFile].scripts,
           \A q \in Range(gs[ProjectFile].nodes) : fs[q].id = gs[q].id
    PROVE  Ids(ProjectRecipe(fs)) = Ids(ProjectRecipe(gs))
<1> DEFINE F == fs[ProjectFile]
           G == gs[ProjectFile]
           Q == ProjectRecipe(fs)
           R == ProjectRecipe(gs)
<1>1. /\ DOMAIN Q.elements = Places(F, F.nodes)
      /\ \A i \in DOMAIN F.nodes : Q.elements[<<"node", i>>] = NodeElement(fs[F.nodes[i]])
      /\ \A i \in DOMAIN F.scripts : Q.elements[<<"script", i>>] = ScriptElement(F.scripts[i])
  BY RecipeParts
<1>2. /\ DOMAIN R.elements = Places(G, G.nodes)
      /\ \A i \in DOMAIN G.nodes : R.elements[<<"node", i>>] = NodeElement(gs[G.nodes[i]])
      /\ \A i \in DOMAIN G.scripts : R.elements[<<"script", i>>] = ScriptElement(G.scripts[i])
      /\ \A j \in DOMAIN R.elements : \/ \E i \in DOMAIN G.nodes : j = <<"node", i>>
                                     \/ \E i \in DOMAIN G.scripts : j = <<"script", i>>
  BY RecipeParts
<1>3. /\ F.nodes = G.nodes /\ F.scripts = G.scripts
      /\ \A i \in DOMAIN G.nodes : fs[G.nodes[i]].id = gs[G.nodes[i]].id
  BY DEF Range
<1> HIDE DEF F, G, Q, R
<1>4. DOMAIN Q.elements = DOMAIN R.elements
  BY <1>1, <1>2, <1>3 DEF Places
<1>5. \A j \in DOMAIN R.elements : Q.elements[j].id = R.elements[j].id
  <2> SUFFICES ASSUME NEW j \in DOMAIN R.elements PROVE Q.elements[j].id = R.elements[j].id
    OBVIOUS
  <2>1. CASE \E i \in DOMAIN G.nodes : j = <<"node", i>>
    BY <1>1, <1>2, <1>3, <2>1, NodeElementFields
  <2>2. CASE \E i \in DOMAIN G.scripts : j = <<"script", i>>
    BY <1>1, <1>2, <1>3, <2>2
  <2>3. QED
    BY <1>2, <2>1, <2>2
<1>6. Ids(Q) = Ids(R)
  BY <1>4, <1>5, IdsOfRecipe
<1>7. QED
  BY <1>6 DEF Q, R

LEMMA SavedNodeSaves ==
    ASSUME IsDirectory(files), Loads(files), NEW edit, edit.kind = "save", IsNode(edit.node),
           Known(edit.node), Submittable(edit.node), EditorAccepts(Edited(edit))
    PROVE  Saves(Edited(edit))
<1> DEFINE G == File
           p == G.nodes[PlaceOf(edit.node.id)]
           node == edit.node
           F == [G EXCEPT !.nodes = G.nodes, !.startup = Order(edit, p)]
           fs == Put(files, p, node)
           result == Put(fs, ProjectFile, F)
<1>1. Edited(edit) = result
  <2>1. EditedNode(edit) = result
    BY DEF EditedNode, Order
  <2>2. QED
    BY <2>1 DEF Edited
<1>2. /\ ProjectFile \in DOMAIN files /\ IsProject(G) /\ G.kind = "project"
      /\ G.nodes \in Seq(Path) /\ Range(G.nodes) \cap Range(G.scripts) = {}
      /\ {G.nodes, G.scripts, G.others} \subseteq Seq(Path)
      /\ \A q \in Range(G.nodes) : /\ q \in Inside \cap DOMAIN files /\ q # ProjectFile
                                  /\ files[q].kind = "node"
      /\ G.startup = EmptyBag \/ \A id \in DOMAIN G.startup :
             id \in Ids(ProjectRecipe(files)) /\ G.startup[id] = 1
  BY LoadedProject DEF File
<1>3. /\ p \in Range(G.nodes) /\ files[p].id = node.id
      /\ p \in DOMAIN files /\ p # ProjectFile /\ p \in Path
  <2>1. PlaceOf(node.id) \in DOMAIN G.nodes /\ files[G.nodes[PlaceOf(node.id)]].id = node.id
    BY PlaceOfKnown
  <2>2. QED
    BY <1>2, <2>1 DEF Range, IsDirectory
<1>4. F = [kind |-> "project", header |-> G.header, nodes |-> G.nodes,
           scripts |-> G.scripts, others |-> G.others, startup |-> Order(edit, p)]
  <2>1. IsProject(G)
    BY <1>2
  <2> HIDE DEF p
  <2>2. QED
    BY <2>1, WithNodes, Zenon
<1> HIDE DEF F, p
<1>5. IsText(F) /\ F.kind = "project" /\ SameIncludes(G, F)
  <2>1. IsProject(F)
    BY <1>2, <1>4 DEF IsProject
  <2>2. QED
    BY <1>2, <1>4, <2>1 DEF IsText, SameIncludes
<1>6. /\ DOMAIN result = DOMAIN files /\ result[ProjectFile] = F /\ result[p] = node
      /\ \A q \in DOMAIN files \ {p, ProjectFile} : result[q] = files[q]
  <2>1. /\ DOMAIN fs = DOMAIN files \cup {p} /\ fs[p] = node
        /\ \A q \in DOMAIN files \ {p} : fs[q] = files[q]
    BY DEF Put
  <2> HIDE DEF fs
  <2>2. /\ DOMAIN result = DOMAIN fs \cup {ProjectFile} /\ result[ProjectFile] = F
        /\ \A q \in DOMAIN fs \ {ProjectFile} : result[q] = fs[q]
    BY DEF Put
  <2> HIDE DEF result
  <2>3. QED
    BY <1>2, <1>3, <2>1, <2>2
<1>7. EditResult(result)
  <2>1. IsText(node)
    BY NodeFields DEF IsText
  <2>2. IsDirectory(result)
    BY <1>3, <1>5, <2>1, PutDirectory, SourcesAssumption
  <2> HIDE DEF result
  <2>3. ProjectFile \in Range(Sources(File)) /\ p \in Range(Sources(File))
    BY <1>3, Included
  <2>4. QED
    BY <1>6, <2>2, <2>3 DEF EditResult
<1> HIDE DEF result
<1>8. node.kind = "node"
  BY NodeFields
<1>9. \A q \in Range(G.nodes) :
          /\ q \in Inside \cap DOMAIN result /\ result[q].kind = "node"
          /\ result[q].id = files[q].id /\ (q # p => result[q] = files[q])
  BY <1>2, <1>3, <1>6, <1>8
<1>10. F.nodes = G.nodes /\ F.scripts = G.scripts
  BY <1>4
<1>11. Loads(result)
  BY <1>1, <1>2, <1>5, <1>6, <1>9, <1>10, AcceptedLoads
<1>12. Comes(result)
  BY <1>6, <1>9, <1>10 DEF Comes, Submittable
<1>13. Ids(ProjectRecipe(result)) = Ids(ProjectRecipe(files))
  BY <1>6, <1>9, <1>10, SameIds DEF File
<1>14. ASSUME NEW S \in SUBSET Changed(result), ProjectFile \notin S
       PROVE  Loads(Overlay(files, Texts(result), S))
  <2>1. S = {} \/ S = {p}
    BY <1>6, <1>14 DEF Changed
  <2>2. CASE S = {}
    BY <2>2, OverlayNone
  <2>3. CASE S = {p}
    <3> DEFINE gs == Overlay(files, Texts(result), S)
    <3>1. /\ DOMAIN gs = DOMAIN files /\ gs[p] = node
          /\ \A q \in DOMAIN files \ {p} : gs[q] = files[q]
      BY <1>3, <1>6, <1>14, <2>3 DEF Overlay, Texts
    <3> HIDE DEF gs
    <3>2. gs[ProjectFile] = G
      BY <1>2, <1>3, <3>1 DEF File
    <3>3. \A q \in Range(G.nodes) :
              gs[q] = result[q] /\ gs[q].kind = "node" /\ NodeElement(gs[q]) = NodeElement(result[q])
              /\ Within(gs[q].attachments, result[q].attachments)
      BY <1>2, <1>6, <1>9, <3>1, WithinItself
    <3>4. Loads(gs)
      <4>1. SameIncludes(gs[ProjectFile], result[ProjectFile])
        BY <1>5, <1>6, <3>2
      <4>2. \A q \in Range(result[ProjectFile].nodes) :
                /\ gs[q].kind = "node" /\ NodeElement(gs[q]) = NodeElement(result[q])
                /\ Within(gs[q].attachments, result[q].attachments)
        BY <1>6, <1>10, <3>3
      <4>3. gs[ProjectFile].startup = EmptyBag \/ \A id \in DOMAIN gs[ProjectFile].startup :
                id \in Ids(ProjectRecipe(result)) /\ gs[ProjectFile].startup[id] = 1
        BY <1>2, <1>13, <3>2
      <4>4. ProjectFile \in DOMAIN gs /\ DOMAIN result \subseteq DOMAIN gs
        BY <1>2, <1>6, <3>1
      <4>5. QED
        BY <1>11, <4>1, <4>2, <4>3, <4>4, LoadsLike
    <3>5. QED
      BY <3>4 DEF gs
  <2>4. QED
    BY <2>1, <2>2, <2>3
<1>15. Partly(result)
  BY <1>14 DEF Partly
<1>16. QED
  BY <1>1, <1>7, <1>11, <1>12, <1>15, SavesResult

LEMMA RemoveAtMembers ==
    ASSUME NEW S, NEW s \in Seq(S), NEW i \in DOMAIN s
    PROVE  RemoveAt(s, i) \in Seq(S) /\ Range(RemoveAt(s, i)) \subseteq Range(s)
<1> DEFINE a == SubSeq(s, 1, i - 1)
           b == SubSeq(s, i + 1, Len(s))
<1>1. i \in 1..Len(s) /\ Len(s) \in Nat
  OBVIOUS
<1>2. a \in Seq(Range(s)) /\ b \in Seq(Range(s))
  <2>1. s \in Seq(Range(s))
    BY DEF Range
  <2>2. QED
    BY <1>1, <2>1
<1> HIDE DEF a, b
<1>3. a \o b \in Seq(Range(s))
  BY <1>2, ConcatProperties
<1>4. RemoveAt(s, i) = a \o b
  BY DEF RemoveAt, a, b
<1> DEFINE r == RemoveAt(s, i)
<1>5. r \in Seq(Range(s)) /\ Range(s) \subseteq S
  BY <1>3, <1>4 DEF Range
<1> HIDE DEF r
<1>6. r \in Seq(S) /\ Range(r) \subseteq Range(s)
  BY <1>5 DEF Range
<1>7. QED
  BY <1>6 DEF r

LEMMA RemovalSaves ==
    ASSUME IsDirectory(files), Loads(files), NEW edit, edit.kind = "remove",
           Known(edit.node), EditorAccepts(Edited(edit))
    PROVE  Saves(Edited(edit))
<1> DEFINE G == File
           id == edit.node.id
           i == PlaceOf(id)
           F == [G EXCEPT !.nodes = RemoveAt(G.nodes, i), !.startup = Without(G.startup, id)]
           detached(q) == [files[q] EXCEPT !.attachments = Without(files[q].attachments, id)]
           rest == Range(G.nodes) \ {G.nodes[i]}
           result == [q \in DOMAIN files |->
                         IF q = ProjectFile THEN F
                         ELSE IF q \in rest THEN detached(q) ELSE files[q]]
<1>1. Edited(edit) = result
  <2>1. EditedRemoval(edit) = result
    BY DEF EditedRemoval
  <2>2. QED
    BY <2>1 DEF Edited
<1>2. /\ ProjectFile \in DOMAIN files /\ IsProject(G) /\ G.kind = "project"
      /\ G.nodes \in Seq(Path) /\ Range(G.nodes) \cap Range(G.scripts) = {}
      /\ {G.nodes, G.scripts, G.others} \subseteq Seq(Path)
      /\ \A q \in Range(G.nodes) : /\ q \in Inside \cap DOMAIN files /\ q # ProjectFile
                                  /\ files[q].kind = "node" /\ IsNode(files[q])
  BY LoadedProject DEF File
<1>3. i \in DOMAIN G.nodes
  BY PlaceOfKnown
<1> HIDE DEF i
<1>4. F = [kind |-> "project", header |-> G.header, nodes |-> RemoveAt(G.nodes, i),
           scripts |-> G.scripts, others |-> G.others, startup |-> Without(G.startup, id)]
  <2>1. IsProject(G)
    BY <1>2
  <2>2. QED
    BY <2>1, WithNodes, Zenon
<1> HIDE DEF F
<1>5. RemoveAt(G.nodes, i) \in Seq(Path) /\ Range(RemoveAt(G.nodes, i)) \subseteq Range(G.nodes)
  BY <1>2, <1>3, RemoveAtMembers
<1>6. IsText(F) /\ F.kind = "project" /\ Range(F.nodes) \subseteq Range(G.nodes)
  <2>1. IsProject(F)
    BY <1>2, <1>4, <1>5 DEF IsProject
  <2>2. QED
    BY <1>4, <1>5, <2>1 DEF IsText
<1>7. \A q \in Range(G.nodes) :
          /\ IsNode(detached(q)) /\ detached(q).kind = "node"
          /\ NodeElement(detached(q)) = NodeElement(files[q])
          /\ Within(detached(q).attachments, files[q].attachments)
  <2> SUFFICES ASSUME NEW q \in Range(G.nodes)
               PROVE  /\ IsNode(detached(q)) /\ detached(q).kind = "node"
                      /\ NodeElement(detached(q)) = NodeElement(files[q])
                      /\ Within(detached(q).attachments, files[q].attachments)
    OBVIOUS
  <2>1. IsNode(files[q])
    BY <1>2
  <2>2. /\ IsNode(detached(q)) /\ detached(q).kind = "node"
        /\ NodeElement(detached(q)) = NodeElement(files[q])
        /\ detached(q).attachments = Without(files[q].attachments, id)
    BY <2>1, DetachedNode, ZenonT(40)
  <2> HIDE DEF detached
  <2>3. QED
    BY <2>2 DEF Within, Without
<1> HIDE DEF detached
<1>8. /\ DOMAIN result = DOMAIN files /\ result[ProjectFile] = F
      /\ \A q \in DOMAIN files \ {ProjectFile} :
             result[q] = IF q \in rest THEN detached(q) ELSE files[q]
  BY <1>2
<1>9. \A q \in DOMAIN files : IsText(result[q])
  BY <1>2, <1>6, <1>7, <1>8 DEF IsText, IsDirectory
<1>10. result = [q \in DOMAIN result |-> result[q]]
  OBVIOUS
<1> HIDE DEF result
<1>11. EditResult(result)
  <2>1. IsDirectory(result)
    BY <1>8, <1>9, <1>10 DEF IsDirectory
  <2>2. QED
    BY <1>8, <2>1, Included DEF EditResult
<1>12. \A q \in Range(G.nodes) :
          /\ q \in Inside \cap DOMAIN result /\ result[q].kind = "node"
          /\ NodeElement(result[q]) = NodeElement(files[q])
          /\ Within(result[q].attachments, files[q].attachments)
  BY <1>2, <1>7, <1>8, WithinItself
<1>13. Loads(result)
  BY <1>1, <1>2, <1>6, <1>8, <1>12, AcceptedLoads
<1>14. Comes(result)
  <2>1. \A q \in Range(G.nodes) : /\ result[q].templateId = files[q].templateId
                                 /\ result[q].assets = files[q].assets
    BY <1>12, NodeElementFields
  <2>2. QED
    BY <1>6, <1>8, <2>1 DEF Comes
<1>15. Partly(result)
  <2> SUFFICES ASSUME NEW S \in SUBSET Changed(result), ProjectFile \notin S
               PROVE  Loads(Overlay(files, Texts(result), S))
    BY DEF Partly
  <2>1. \A q \in Range(File.nodes) \cap S :
            /\ result[q].kind = "node" /\ NodeElement(result[q]) = NodeElement(files[q])
            /\ Within(result[q].attachments, files[q].attachments)
    BY <1>12
  <2>2. QED
    BY <1>11, <2>1, MixtureLoads
<1>16. QED
  BY <1>1, <1>11, <1>13, <1>14, <1>15, SavesResult

\* Every edit of the editor that it accepts is a save that may be cut off.
LEMMA EditSaves ==
    ASSUME IsDirectory(files), Loads(files), NEW edit \in Edits(SnapshotOf(files)),
           edit.kind \in {"new", "save"} => Submittable(edit.node),
           edit.kind = "new" => FirstFree(NodePaths, NodeId) # NoOne,
           EditorAccepts(Edited(edit))
    PROVE  Saves(Edited(edit))
  BY EditCases, ScriptSaves, NewNodeSaves, SavedNodeSaves, RemovalSaves

--------------------------------------------------------------------------------
(***************************************************************************)
(* The invariant is inductive.  First what a step is, whoever takes it.    *)
(***************************************************************************)

Operation(kind, phase, unread, todo, text, changed, before, archived, failed) ==
    [kind |-> kind, phase |-> phase, unread |-> unread, todo |-> todo, text |-> text,
     changed |-> changed, before |-> before, archived |-> archived, failed |-> failed]

LEMMA FieldsOf ==
    ASSUME NEW r, Fields(r)
    PROVE  /\ r = [kind |-> r.kind, phase |-> r.phase, unread |-> r.unread, todo |-> r.todo,
                   text |-> r.text, changed |-> r.changed, before |-> r.before,
                   archived |-> r.archived, failed |-> r.failed]
           /\ DOMAIN r = {"kind", "phase", "unread", "todo", "text", "changed", "before",
                          "archived", "failed"}
<1>1. r = [kind |-> r.kind, phase |-> r.phase, unread |-> r.unread, todo |-> r.todo,
           text |-> r.text, changed |-> r.changed, before |-> r.before,
           archived |-> r.archived, failed |-> r.failed]
  BY DEF Fields
<1>2. QED
  BY <1>1

LEMMA OperationFields ==
    ASSUME NEW k, NEW ph, NEW u, NEW t, NEW x, NEW c, NEW b, NEW ar, NEW f
    PROVE  LET r == Operation(k, ph, u, t, x, c, b, ar, f) IN
           /\ Fields(r)
           /\ r.kind = k /\ r.phase = ph /\ r.unread = u /\ r.todo = t /\ r.text = x
           /\ r.changed = c /\ r.before = b /\ r.archived = ar /\ r.failed = f
  BY DEF Operation, Fields

\* The updates of an operation.
LEMMA ReadFields ==
    ASSUME NEW r, Fields(r), NEW y, NEW z
    PROVE  [r EXCEPT !.unread = y, !.text = z] =
               Operation(r.kind, r.phase, y, r.todo, z,
                         r.changed, r.before, r.archived, r.failed)
<1> DEFINE q == [r EXCEPT !.unread = y]
<1>1. q = Operation(r.kind, r.phase, y, r.todo, r.text,
                         r.changed, r.before, r.archived, r.failed)
  BY FieldsOf DEF Operation
<1> HIDE DEF q
<1>2. [q EXCEPT !.text = z] =
               Operation(r.kind, r.phase, y, r.todo, z,
                         r.changed, r.before, r.archived, r.failed)
  BY <1>1 DEF Operation
<1>3. QED
  BY <1>2, Zenon DEF q

LEMMA ArchivedFields ==
    ASSUME NEW r, Fields(r), NEW y, NEW z
    PROVE  [r EXCEPT !.phase = y, !.archived = z] =
               Operation(r.kind, y, r.unread, r.todo, r.text,
                         r.changed, r.before, z, r.failed)
<1> DEFINE q == [r EXCEPT !.phase = y]
<1>1. q = Operation(r.kind, y, r.unread, r.todo, r.text,
                         r.changed, r.before, r.archived, r.failed)
  BY FieldsOf DEF Operation
<1> HIDE DEF q
<1>2. [q EXCEPT !.archived = z] =
               Operation(r.kind, y, r.unread, r.todo, r.text,
                         r.changed, r.before, z, r.failed)
  BY <1>1 DEF Operation
<1>3. QED
  BY <1>2, Zenon DEF q

LEMMA UndoingFields ==
    ASSUME NEW r, Fields(r), NEW y, NEW z
    PROVE  [r EXCEPT !.changed = z, !.phase = y] =
               Operation(r.kind, y, r.unread, r.todo, r.text,
                         z, r.before, r.archived, r.failed)
<1> DEFINE q == [r EXCEPT !.changed = z]
<1>1. q = Operation(r.kind, r.phase, r.unread, r.todo, r.text,
                         z, r.before, r.archived, r.failed)
  BY FieldsOf DEF Operation
<1> HIDE DEF q
<1>2. [q EXCEPT !.phase = y] =
               Operation(r.kind, y, r.unread, r.todo, r.text,
                         z, r.before, r.archived, r.failed)
  BY <1>1 DEF Operation
<1>3. QED
  BY <1>2, Zenon DEF q

LEMMA UnrestoredFields ==
    ASSUME NEW r, Fields(r), NEW y, NEW z
    PROVE  [r EXCEPT !.changed = y, !.failed = z] =
               Operation(r.kind, r.phase, r.unread, r.todo, r.text,
                         y, r.before, r.archived, z)
<1> DEFINE q == [r EXCEPT !.changed = y]
<1>1. q = Operation(r.kind, r.phase, r.unread, r.todo, r.text,
                         y, r.before, r.archived, r.failed)
  BY FieldsOf DEF Operation
<1> HIDE DEF q
<1>2. [q EXCEPT !.failed = z] =
               Operation(r.kind, r.phase, r.unread, r.todo, r.text,
                         y, r.before, r.archived, z)
  BY <1>1 DEF Operation
<1>3. QED
  BY <1>2, Zenon DEF q

LEMMA RenamedFields ==
    ASSUME NEW r, Fields(r), NEW y, NEW z
    PROVE  [r EXCEPT !.archived = y, !.failed = z] =
               Operation(r.kind, r.phase, r.unread, r.todo, r.text,
                         r.changed, r.before, y, z)
<1> DEFINE q == [r EXCEPT !.archived = y]
<1>1. q = Operation(r.kind, r.phase, r.unread, r.todo, r.text,
                         r.changed, r.before, y, r.failed)
  BY FieldsOf DEF Operation
<1> HIDE DEF q
<1>2. [q EXCEPT !.failed = z] =
               Operation(r.kind, r.phase, r.unread, r.todo, r.text,
                         r.changed, r.before, y, z)
  BY <1>1 DEF Operation
<1>3. QED
  BY <1>2, Zenon DEF q

LEMMA PhaseField ==
    ASSUME NEW r, Fields(r), NEW y
    PROVE  [r EXCEPT !.phase = y] =
               Operation(r.kind, y, r.unread, r.todo, r.text,
                         r.changed, r.before, r.archived, r.failed)
  BY FieldsOf DEF Operation

LEMMA ChangedField ==
    ASSUME NEW r, Fields(r), NEW y
    PROVE  [r EXCEPT !.changed = y] =
               Operation(r.kind, r.phase, r.unread, r.todo, r.text,
                         y, r.before, r.archived, r.failed)
  BY FieldsOf DEF Operation

Written(r, y, z, w) == [r EXCEPT !.todo = y, !.changed = z, !.phase = w]

LEMMA WrittenFields ==
    ASSUME NEW r, Fields(r), NEW y, NEW z, NEW w
    PROVE  Written(r, y, z, w) =
               Operation(r.kind, w, r.unread, y, r.text, z, r.before, r.archived, r.failed)
<1> DEFINE q == [r EXCEPT !.todo = y]
           s == [q EXCEPT !.changed = z]
<1>1. q = Operation(r.kind, r.phase, r.unread, y, r.text, r.changed, r.before, r.archived,
                    r.failed)
  BY FieldsOf DEF Operation
<1> HIDE DEF q
<1>2. s = Operation(r.kind, r.phase, r.unread, y, r.text, z, r.before, r.archived, r.failed)
  BY <1>1 DEF Operation
<1> HIDE DEF s
<1>3. [s EXCEPT !.phase = w] =
          Operation(r.kind, w, r.unread, y, r.text, z, r.before, r.archived, r.failed)
  BY <1>2 DEF Operation
<1>4. QED
  BY <1>3, Zenon DEF q, s, Written

LEMMA IdleFields ==
    /\ OpType(Idle) /\ Idle.kind = "none" /\ Idle.phase = "none" /\ Idle.unread = <<>>
    /\ Idle.todo = {} /\ Idle.text = <<>> /\ Idle.changed = {}
    /\ Idle.archived = FALSE /\ Idle.failed = FALSE
  BY DEF Idle, OpType, Fields, SavePhases

Begun(k, ph, x, t, b) ==
    [Idle EXCEPT !.kind = k, !.phase = ph, !.text = x, !.todo = t, !.before = b]

LEMMA BegunFields ==
    ASSUME NEW k, NEW ph, NEW x, NEW t, NEW b
    PROVE  Begun(k, ph, x, t, b) = Operation(k, ph, <<>>, t, x, {}, b, FALSE, FALSE)
<1> DEFINE r == Idle
<1>0. Fields(r) /\ r.unread = <<>> /\ r.changed = {} /\ r.archived = FALSE /\ r.failed = FALSE
  BY IdleFields DEF OpType
<1> HIDE DEF r
<1> DEFINE i1 == [r EXCEPT !.kind = k]
           i2 == [i1 EXCEPT !.phase = ph]
           i3 == [i2 EXCEPT !.text = x]
           i4 == [i3 EXCEPT !.todo = t]
           i5 == [i4 EXCEPT !.before = b]
<1>1. i1 = Operation(k, r.phase, r.unread, r.todo, r.text, r.changed,
                    r.before, r.archived, r.failed)
  BY <1>0, FieldsOf, SMTT(30) DEF Operation
<1> HIDE DEF i1
<1>2. i2 = Operation(k, ph, r.unread, r.todo, r.text, r.changed,
                    r.before, r.archived, r.failed)
  BY <1>1 DEF Operation
<1> HIDE DEF i2
<1>3. i3 = Operation(k, ph, r.unread, r.todo, x, r.changed,
                    r.before, r.archived, r.failed)
  BY <1>2 DEF Operation
<1> HIDE DEF i3
<1>4. i4 = Operation(k, ph, r.unread, t, x, r.changed,
                    r.before, r.archived, r.failed)
  BY <1>3 DEF Operation
<1> HIDE DEF i4
<1>5. i5 = Operation(k, ph, r.unread, t, x, r.changed,
                    b, r.archived, r.failed)
  BY <1>4 DEF Operation
<1>6. QED
  BY <1>0, <1>5, Zenon DEF i1, i2, i3, i4, r, Begun

LEMMA OpenedFrom ==
    ASSUME NEW r, Fields(r), NEW k, NEW ph, NEW u, NEW b
    PROVE  [r EXCEPT !.kind = k, !.phase = ph, !.unread = u, !.before = b] =
               Operation(k, ph, u, r.todo, r.text, r.changed,
                         b, r.archived, r.failed)
<1> DEFINE i1 == [r EXCEPT !.kind = k]
           i2 == [i1 EXCEPT !.phase = ph]
           i3 == [i2 EXCEPT !.unread = u]
           i4 == [i3 EXCEPT !.before = b]
<1>1. i1 = Operation(k, r.phase, r.unread, r.todo, r.text, r.changed,
                    r.before, r.archived, r.failed)
  BY FieldsOf DEF Operation
<1> HIDE DEF i1
<1>2. i2 = Operation(k, ph, r.unread, r.todo, r.text, r.changed,
                    r.before, r.archived, r.failed)
  BY <1>1 DEF Operation
<1> HIDE DEF i2
<1>3. i3 = Operation(k, ph, u, r.todo, r.text, r.changed,
                    r.before, r.archived, r.failed)
  BY <1>2 DEF Operation
<1> HIDE DEF i3
<1>4. i4 = Operation(k, ph, u, r.todo, r.text, r.changed,
                    b, r.archived, r.failed)
  BY <1>3 DEF Operation
<1>5. QED
  BY <1>4, Zenon DEF i1, i2, i3

LEMMA OpenedFields ==
    ASSUME NEW u, NEW b
    PROVE  [Idle EXCEPT !.kind = "open", !.phase = "read", !.unread = u, !.before = b] =
               Operation("open", "read", u, {}, <<>>, {}, b, FALSE, FALSE)
<1>0. Fields(Idle)
  BY IdleFields DEF OpType
<1>1. [Idle EXCEPT !.kind = "open", !.phase = "read", !.unread = u, !.before = b] =
          Operation("open", "read", u, Idle.todo, Idle.text, Idle.changed, b,
                    Idle.archived, Idle.failed)
  BY <1>0, OpenedFrom, Zenon
<1>2. QED
  BY <1>1, IdleFields, Zenon

\* The operation of a.
LEMMA OpSet ==
    ASSUME StateType, NEW a \in Actor, NEW f, op' = [op EXCEPT ![a] = f]
    PROVE  /\ op' = [b \in Actor |-> op'[b]] /\ op'[a] = f
           /\ \A b \in Actor \ {a} : op'[b] = op[b]
  BY DEF StateType

\* A step of a that holds the lock after it.
LEMMA Working ==
    ASSUME Inductive, NEW a \in Actor, lock' = a, lock \in {a, NoOne},
           op' = [b \in Actor |-> op'[b]], \A b \in Actor \ {a} : op'[b] = op[b],
           UNCHANGED form, OpType(op'[a]), op'[a].phase \in SavePhases, Plan(op'[a]),
           op'[a].kind = "apply" => form[a] = SnapshotOf(op'[a].before),
           Progress(op[a])', Disk(op[a])', IsDirectory(files'), Scalars',
           DiskMatchesSources'
    PROVE  Inductive'
<1> USE DEF Inductive
<1>1. NoOne \notin Actor
  BY SourcesAssumption
<1>2. StateType'
  BY <1>1 DEF StateType
<1>3. PlanInv'
  BY DEF PlanInv
<1>4. ProgressInv' /\ DiskInv'
  BY DEF ProgressInv, DiskInv
<1>5. LoadableWhenFree'
  BY <1>1 DEF LoadableWhenFree
<1>6. QED
  BY <1>2, <1>3, <1>4, <1>5

\* A step of a that releases the lock.
LEMMA Finished ==
    ASSUME Inductive, NEW a \in Actor, lock = a, lock' = NoOne,
           op' = [b \in Actor |-> op'[b]], \A b \in Actor \ {a} : op'[b] = op[b],
           op'[a] = Idle, form' = [b \in Actor |-> form'[b]], IsDirectory(files'), Scalars',
           LoadableWhenFree', DiskMatchesSources'
    PROVE  Inductive'
<1> USE DEF Inductive
<1>1. NoOne \notin Actor
  BY SourcesAssumption
<1>2. StateType'
  BY <1>1, IdleFields DEF StateType, SavePhases
<1>3. PlanInv' /\ ProgressInv' /\ DiskInv'
  BY <1>1 DEF PlanInv, ProgressInv, DiskInv
<1>4. QED
  BY <1>2, <1>3

\* A step of a that does not hold the lock.
LEMMA Besides ==
    ASSUME Inductive, NEW a \in Actor, lock # a, UNCHANGED <<files, lock>>,
           op' = [b \in Actor |-> op'[b]], \A b \in Actor \ {a} : op'[b] = op[b],
           form' = [b \in Actor |-> form'[b]], \A b \in Actor \ {a} : form'[b] = form[b],
           OpType(op'[a]), op'[a].phase \notin SavePhases,
           UNCHANGED <<vm, prepared, drift>>, window => window', Scalars'
    PROVE  Inductive'
<1> USE DEF Inductive
<1>1. StateType'
  BY DEF StateType
<1>2. PlanInv'
  BY DEF PlanInv
<1>3. ProgressInv'
  BY DEF ProgressInv, Progress
<1>4. DiskInv'
  BY DEF DiskInv, Disk, Matches
<1>5. LoadableWhenFree'
  BY DEF LoadableWhenFree
<1>6. DiskMatchesSources'
  BY DEF DiskMatchesSources, Matches
<1>7. QED
  BY <1>1, <1>2, <1>3, <1>4, <1>5, <1>6

\* A step of a, on the virtual machine and without the lock.
LEMMA Unlocked ==
    ASSUME Inductive, NEW a \in Actor, lock = NoOne, UNCHANGED <<files, lock, form>>,
           op' = [b \in Actor |-> op'[b]], \A b \in Actor \ {a} : op'[b] = op[b],
           OpType(op'[a]), op'[a].phase \notin SavePhases,
           window => window', Scalars', DiskMatchesSources'
    PROVE  Inductive'
<1> USE DEF Inductive
<1>1. NoOne \notin Actor
  BY SourcesAssumption
<1>2. StateType'
  BY <1>1 DEF StateType
<1>3. PlanInv' /\ ProgressInv' /\ DiskInv'
  BY <1>1 DEF PlanInv, ProgressInv, DiskInv
<1>4. LoadableWhenFree'
  BY DEF LoadableWhenFree
<1>5. QED
  BY <1>2, <1>3, <1>4

LEMMA InitInductive == Init => Inductive
<1> SUFFICES ASSUME Init PROVE Inductive
  OBVIOUS
<1> USE DEF Init
<1>1. NoOne \notin Actor /\ IsDirectory(InitialFiles) /\ Loads(InitialFiles)
  BY SourcesAssumption
<1>2. StateType
  <2>1. \A a \in Actor : op[a] = Idle
    OBVIOUS
  <2>2. \A a \in Actor : OpType(op[a]) /\ ((lock = a) <=> (op[a].phase \in SavePhases))
    BY <1>1, <2>1, IdleFields DEF SavePhases
  <2>3. Scalars
    <3>1. 0 \in 0..MaxSaves /\ 0 \in 0..MaxFaults /\ 0 \in 0..MaxCrashes
      BY SourcesAssumption
    <3>2. vm \in [running : BOOLEAN, disk : BOOLEAN]
      OBVIOUS
    <3>3. QED
      BY <3>1, <3>2 DEF Scalars
  <2>4. QED
    BY <1>1, <2>2, <2>3 DEF StateType
<1>3. PlanInv /\ ProgressInv /\ DiskInv
  BY <1>1 DEF PlanInv, ProgressInv, DiskInv
<1>4. LoadableWhenFree /\ DiskMatchesSources
  BY <1>1 DEF LoadableWhenFree, DiskMatchesSources, Matches, Blank
<1>5. QED
  BY <1>2, <1>3, <1>4 DEF Inductive

--------------------------------------------------------------------------------
(***************************************************************************)
(* Editors without the lock, and the virtual machine.                      *)
(***************************************************************************)

LEMMA OpenEditorStep ==
    ASSUME Inductive, NEW a \in Actor, OpenEditor(a) PROVE Inductive'
<1> DEFINE s == Sources(File)
           r == [Idle EXCEPT !.kind = "open", !.phase = "read", !.unread = s, !.before = File]
<1> USE DEF OpenEditor
<1>1. StateType /\ op' = [op EXCEPT ![a] = r]
  BY DEF Inductive
<1>2. s \in Seq(Path) /\ s # <<>>
  <2>1. File.nodes \in Seq(Path) /\ File.scripts \in Seq(Path)
    BY <1>1, LoadedProject DEF File, StateType
  <2>2. QED
    BY <2>1, SourcesMembers
<1> HIDE DEF s
<1>3. OpType(r) /\ r.phase = "read"
  <2>1. r = Operation("open", "read", s, {}, <<>>, {}, File, FALSE, FALSE)
    BY OpenedFields
  <2> HIDE DEF r
  <2>2. QED
    <3>1. /\ Fields(r) /\ r.kind = "open" /\ r.phase = "read" /\ r.unread = s
          /\ r.todo = {} /\ r.changed = {} /\ r.archived = FALSE /\ r.failed = FALSE
      BY <2>1 DEF Operation, Fields
    <3>2. QED
      BY <1>2, <3>1 DEF OpType, SavePhases
<1> HIDE DEF r
<1>4. /\ op' = [b \in Actor |-> op'[b]] /\ op'[a] = r
      /\ \A b \in Actor \ {a} : op'[b] = op[b]
  BY <1>1 DEF StateType
<1>5. lock # a
  BY <1>1 DEF StateType, OpType, SavePhases
<1>6. /\ UNCHANGED <<files, lock, form, vm, prepared, drift, window>> /\ Scalars'
      /\ form' = [b \in Actor |-> form'[b]]
  BY <1>1 DEF trackVars, counters, StateType, Scalars
<1>7. op'[a].phase \notin SavePhases
  BY <1>3, <1>4 DEF SavePhases
<1>8. QED
  BY <1>3, <1>4, <1>5, <1>6, <1>7, Besides

LEMMA ReadSourceStep ==
    ASSUME Inductive, NEW a \in Actor, ReadSource(a) PROVE Inductive'
<1> DEFINE p == Head(op[a].unread)
           rest == Tail(op[a].unread)
           text == Put(op[a].text, p, files[p])
           r == [op[a] EXCEPT !.unread = rest, !.text = text]
<1> USE DEF ReadSource
<1>1. StateType /\ OpType(op[a]) /\ Fields(op[a]) /\ op[a].phase = "read" /\ lock # a
  BY DEF Inductive, StateType, OpType, SavePhases
<1>2. /\ UNCHANGED <<files, lock, vm, prepared, drift, window>> /\ Scalars'
  BY <1>1 DEF trackVars, counters, StateType, Scalars
<1>3. CASE op' = [op EXCEPT ![a] = Idle]
           /\ (UNCHANGED form
               \/ form' = [form EXCEPT ![a] = [project |-> op[a].before, sources |-> text]])
  <2>1. /\ op' = [b \in Actor |-> op'[b]] /\ op'[a] = Idle
        /\ \A b \in Actor \ {a} : op'[b] = op[b]
    BY <1>1, <1>3, OpSet
  <2>2. /\ form' = [b \in Actor |-> form'[b]]
        /\ \A b \in Actor \ {a} : form'[b] = form[b]
    BY <1>1, <1>3 DEF StateType
  <2>3. OpType(op'[a]) /\ op'[a].phase \notin SavePhases
    BY <2>1, IdleFields DEF SavePhases
  <2>4. QED
    BY <1>1, <1>2, <2>1, <2>2, <2>3, Besides
<1>4. CASE rest # <<>> /\ op' = [op EXCEPT ![a] = r] /\ UNCHANGED form
  <2>1. rest \in Seq(Path)
    BY <1>1 DEF OpType
  <2>2. DOMAIN op[a].text \subseteq DOMAIN text
    BY DEF Put
  <2> HIDE DEF rest, text
  <2>3. r = Operation(op[a].kind, op[a].phase, rest, op[a].todo, text, op[a].changed,
                      op[a].before, op[a].archived, op[a].failed)
    BY <1>1, ReadFields
  <2> HIDE DEF r
  <2>4. OpType(r) /\ r.phase \notin SavePhases
    <3>1. /\ Fields(r) /\ r.kind = op[a].kind /\ r.phase = op[a].phase /\ r.unread = rest
          /\ r.todo = op[a].todo /\ r.text = text /\ r.changed = op[a].changed
          /\ r.before = op[a].before /\ r.archived = op[a].archived /\ r.failed = op[a].failed
      BY <2>3 DEF Operation, Fields
    <3>2. QED
      BY <1>1, <1>4, <2>1, <2>2, <3>1 DEF OpType, SavePhases
  <2>5. /\ op' = [b \in Actor |-> op'[b]] /\ op'[a] = r
        /\ \A b \in Actor \ {a} : op'[b] = op[b]
    BY <1>1, <1>4 DEF StateType
  <2>6. /\ form' = [b \in Actor |-> form'[b]]
        /\ \A b \in Actor \ {a} : form'[b] = form[b]
    BY <1>1, <1>4 DEF StateType
  <2>7. QED
    BY <1>1, <1>2, <2>4, <2>5, <2>6, Besides
<1>5. QED
  BY <1>3, <1>4, Zenon

LEMMA CloseEditorStep ==
    ASSUME Inductive, NEW a \in Actor, CloseEditor(a) PROVE Inductive'
<1> USE DEF CloseEditor
<1>1. StateType /\ OpType(op[a])
  BY DEF Inductive, StateType
<1>2. lock # a /\ op[a].phase \notin SavePhases
  BY <1>1 DEF StateType, OpType, SavePhases
<1>3. /\ UNCHANGED <<files, lock, op, vm, prepared, drift, window>> /\ Scalars'
  BY <1>1 DEF trackVars, counters, StateType, Scalars
<1>4. /\ form' = [b \in Actor |-> form'[b]] /\ \A b \in Actor \ {a} : form'[b] = form[b]
      /\ op' = [b \in Actor |-> op'[b]]
  BY <1>1, <1>3 DEF StateType
<1>5. QED
  BY <1>1, <1>2, <1>3, <1>4, Besides

--------------------------------------------------------------------------------
(***************************************************************************)
(* The beginning of a save.                                                *)
(***************************************************************************)

LEMMA Begins ==
    ASSUME Inductive, NEW a \in Actor, NEW kind, NEW phase, NEW text,
           Enter(a), Begin(a, kind, phase, text),
           UNCHANGED <<files, form, vm, trackVars, faults, crashes>>,
           kind \in {"add", "rewrite", "apply"}, phase \in {"archive", "write"},
           phase = "archive" => kind = "apply" /\ vm.disk,
           kind = "apply" => form[a] = SnapshotOf(files) /\ (phase = "write" => ~vm.disk),
           IsDirectory(text), DOMAIN text # {},
           kind = "rewrite" => \E p \in Path : DOMAIN text = {p},
           kind = "add" => ~Late(text),
           kind \in {"add", "apply"} =>
               /\ ProjectFile \in DOMAIN text
               /\ SafeSave(files, text) /\ SourcesOnly(files, text),
           kind = "apply" => GuestSafe(files, text)
    PROVE  Inductive'
<1> DEFINE r == [Idle EXCEPT !.kind = kind, !.phase = phase, !.text = text,
                             !.todo = DOMAIN text, !.before = files]
<1>1. StateType /\ op' = [op EXCEPT ![a] = r] /\ lock = NoOne /\ lock' = a /\ Loads(files)
  BY DEF Inductive, Begin, Enter
<1>2. r = Operation(kind, phase, <<>>, DOMAIN text, text, {}, files, FALSE, FALSE)
  <2>1. r = Begun(kind, phase, text, DOMAIN text, files)
    BY Zenon DEF Begun
  <2>2. QED
    BY <2>1, BegunFields
<1> HIDE DEF r
<1>3. /\ op' = [b \in Actor |-> op'[b]] /\ op'[a] = r
      /\ \A b \in Actor \ {a} : op'[b] = op[b]
  BY <1>1 DEF StateType
<1>4. /\ Fields(r) /\ r.kind = kind /\ r.phase = phase /\ r.unread = <<>>
      /\ r.todo = DOMAIN text /\ r.text = text /\ r.changed = {} /\ r.before = files
      /\ r.archived = FALSE /\ r.failed = FALSE
  BY <1>2 DEF Operation, Fields
<1>5. OpType(r) /\ r.phase \in SavePhases
  <2>1. r.unread \in Seq(Path) /\ r.todo \cup r.changed \subseteq DOMAIN r.text
    BY <1>4
  <2>2. r.archived \in BOOLEAN /\ r.failed \in BOOLEAN
    BY <1>4
  <2>3. QED
    BY <1>4, <2>1, <2>2 DEF OpType, SavePhases
<1>6. Plan(r)
  BY <1>1, <1>4 DEF Plan, StateType
<1>7. UNCHANGED <<files, form, vm, prepared, drift, window, faults, crashes>>
  BY DEF trackVars
<1>8. Progress(op[a])'
  <2>1. files = Overlay(files, text, {})
    BY <1>1, OverlayNone DEF StateType
  <2>2. (op[a])' = r
    BY <1>3
  <2>3. QED
    BY <1>4, <1>7, <2>1, <2>2 DEF Progress
<1>9. Disk(op[a])'
  BY <1>3, <1>4, <1>7 DEF Disk, Inductive, DiskMatchesSources, Matches
<1>10. Scalars'
  BY <1>1, <1>7, SourcesAssumption DEF StateType, Scalars, Begin, Enter
<1>11. DiskMatchesSources'
  BY <1>7 DEF Inductive, DiskMatchesSources, Matches
<1>12. IsDirectory(files')
  BY <1>1, <1>7 DEF StateType
<1>13. UNCHANGED form
  BY <1>7
<1>14. op'[a].kind = "apply" => form[a] = SnapshotOf(op'[a].before)
  BY <1>3, <1>4
<1>15. QED
  BY <1>1, <1>3, <1>5, <1>6, <1>8, <1>9, <1>10, <1>11, <1>12, <1>13, <1>14, Working

LEMMA AddScriptIncludeStep ==
    ASSUME Inductive, NEW a \in Actor, AddScriptInclude(a) PROVE Inductive'
<1> DEFINE p == FirstFree(ScriptPaths, ScriptId)
           T == AddedScript(p)
<1>1. /\ Enter(a) /\ p # NoOne /\ Begin(a, "add", "write", T)
      /\ UNCHANGED <<files, form, vm, trackVars, faults, crashes>>
  BY Zenon DEF AddScriptInclude, AddedScript
<1>2. IsDirectory(files) /\ Loads(files)
  BY <1>1 DEF Inductive, StateType, Enter
<1>3. /\ IsDirectory(T) /\ ~Late(T) /\ SafeSave(files, T) /\ SourcesOnly(files, T)
  BY <1>1, <1>2, AddedScriptSafe
<1>4. ProjectFile \in DOMAIN T
  BY DEF AddedScript
<1> HIDE DEF T
<1>5. QED
  BY <1>1, <1>3, <1>4, Begins

LEMMA AddNodeIncludeStep ==
    ASSUME Inductive, NEW a \in Actor, AddNodeInclude(a) PROVE Inductive'
<1> DEFINE p == FirstFree(NodePaths, NodeId)
           T == AddedNode(p)
<1>1. /\ Enter(a) /\ p # NoOne /\ Begin(a, "add", "write", T)
      /\ UNCHANGED <<files, form, vm, trackVars, faults, crashes>>
  BY Zenon DEF AddNodeInclude, AddedNode
<1>2. IsDirectory(files) /\ Loads(files)
  BY <1>1 DEF Inductive, StateType, Enter
<1>3. /\ IsDirectory(T) /\ ~Late(T) /\ SafeSave(files, T) /\ SourcesOnly(files, T)
  BY <1>1, <1>2, AddedNodeSafe
<1>4. ProjectFile \in DOMAIN T
  BY DEF AddedNode
<1> HIDE DEF T
<1>5. QED
  BY <1>1, <1>3, <1>4, Begins

LEMMA WriteProjectSourceStep ==
    ASSUME Inductive, NEW a \in Actor, NEW w \in Rewrites, WriteProjectSource(a, w[1], w[2])
    PROVE  Inductive'
<1> DEFINE p == w[1]
           T == [q \in {p} |-> w[2]]
<1>1. /\ Enter(a) /\ Begin(a, "rewrite", "write", T)
      /\ UNCHANGED <<files, form, vm, trackVars, faults, crashes>>
      /\ p \in Inside
  BY DEF WriteProjectSource, Resolves
<1>2. p \in Path /\ IsText(w[2])
  BY <1>1, SourcesAssumption
<1>3. IsDirectory(T) /\ DOMAIN T = {p} /\ DOMAIN T # {}
  BY <1>2 DEF IsDirectory
<1> HIDE DEF T, p
<1>4. QED
  BY <1>1, <1>2, <1>3, Begins

LEMMA ApplyStep ==
    ASSUME Inductive, NEW a \in Actor, NEW edit \in Edits(form[a]),
           NEW freshGuest, Apply(a, edit, freshGuest)
    PROVE  Inductive'
<1> DEFINE result == Edited(edit)
           T == Texts(result)
           phase == IF vm.disk THEN "archive" ELSE "write"
<1>1. /\ Enter(a) /\ Current(a)
      /\ edit.kind \in {"new", "save"} => Submittable(edit.node)
      /\ edit.kind = "new" => FirstFree(NodePaths, NodeId) # NoOne
      /\ EditorAccepts(result)
      /\ UNCHANGED <<files, form, vm, trackVars, faults, crashes>>
  BY Zenon DEF Apply
<1>2. Begin(a, "apply", phase, T)
  BY Zenon DEF Apply, Texts, Changed
<1>3. IsDirectory(files) /\ Loads(files)
  BY <1>1 DEF Inductive, StateType, Enter
<1>4. form[a] = SnapshotOf(files)
  BY <1>1 DEF Current
<1>5. Saves(result)
  BY <1>1, <1>3, <1>4, EditSaves
<1> HIDE DEF result
<1>6. IsDirectory(T) /\ ProjectFile \in DOMAIN T /\ SourcesOnly(files, T)
  BY <1>3, <1>5, TextsOfResult DEF Saves
<1>7. SafeSave(files, T) /\ GuestSafe(files, T)
  BY <1>5 DEF Saves
<1> HIDE DEF T
<1>8. vm.disk \in BOOLEAN
  BY DEF Inductive, StateType, Scalars
<1>9. CASE vm.disk
  <2>1. Begin(a, "apply", "archive", T)
    BY <1>2, <1>9
  <2>2. DOMAIN T # {}
    BY <1>6
  <2>3. QED
    BY <1>1, <1>4, <1>6, <1>7, <1>9, <2>1, <2>2, Begins
<1>10. CASE ~vm.disk
  <2>1. Begin(a, "apply", "write", T)
    BY <1>2, <1>10
  <2>2. DOMAIN T # {}
    BY <1>6
  <2>3. QED
    BY <1>1, <1>4, <1>6, <1>7, <1>10, <2>1, <2>2, Begins
<1>11. QED
  BY <1>9, <1>10

--------------------------------------------------------------------------------
(***************************************************************************)
(* The steps of a save.                                                    *)
(***************************************************************************)

\* What is known of the operation that holds the lock.
Holds(a) ==
    /\ lock = a /\ StateType /\ IsDirectory(files) /\ Scalars
    /\ OpType(op[a]) /\ Fields(op[a]) /\ op[a].phase \in SavePhases
    /\ Plan(op[a]) /\ Progress(op[a]) /\ Disk(op[a])
    /\ op[a].kind \in {"add", "rewrite", "apply"}
    /\ op[a].kind = "apply" => form[a] = SnapshotOf(op[a].before)
    /\ op[a].todo \cup op[a].changed \subseteq DOMAIN op[a].text
    /\ DOMAIN op[a].text \subseteq Path

LEMMA Holding ==
    ASSUME Inductive, NEW a \in Actor, op[a].phase \in SavePhases
    PROVE  Holds(a)
<1>1. lock = a /\ OpType(op[a]) /\ StateType
  BY DEF Inductive, StateType
<1>2. Plan(op[a]) /\ Progress(op[a]) /\ Disk(op[a])
  BY <1>1 DEF Inductive, PlanInv, ProgressInv, DiskInv
<1>3. DOMAIN op[a].text \subseteq Path
  BY <1>2 DEF Plan, IsDirectory
<1>4. op[a].kind \in {"add", "rewrite", "apply"}
  BY <1>1 DEF OpType, SavePhases
<1>5. op[a].kind = "apply" => form[a] = SnapshotOf(op[a].before)
  BY <1>1 DEF Inductive, PlanInv
<1>6. Fields(op[a]) /\ op[a].todo \cup op[a].changed \subseteq DOMAIN op[a].text
  BY <1>1 DEF OpType
<1>7. QED
  BY <1>1, <1>2, <1>3, <1>4, <1>5, <1>6 DEF Holds, StateType

LEMMA Ordered ==
    ASSUME NEW text, ~Late(text), NEW p \in DOMAIN text, p \in Path, p # ProjectFile
    PROVE  ~(WriteOrder[ProjectFile] <= WriteOrder[p])
<1>1. WriteOrder \in [Path -> Nat] /\ ProjectFile \in Path
      /\ (WriteOrder[p] = WriteOrder[ProjectFile] => p = ProjectFile)
  BY SourcesAssumption
<1>2. WriteOrder[p] \in Nat /\ WriteOrder[ProjectFile] \in Nat
  BY <1>1
<1>3. ~(WriteOrder[ProjectFile] < WriteOrder[p])
  BY DEF Late
<1>4. QED
  BY <1>1, <1>2, <1>3

\* The project file is written last, unless an include comes after it.
LEMMA ProjectFileLast ==
    ASSUME NEW a, op[a].todo \subseteq Path, op[a].todo \subseteq DOMAIN op[a].text,
           ~Late(op[a].text), Turn(a, ProjectFile)
    PROVE  op[a].todo = {ProjectFile}
<1> SUFFICES ASSUME NEW q \in op[a].todo, q # ProjectFile PROVE FALSE
  BY DEF Turn
<1>1. WriteOrder[ProjectFile] <= WriteOrder[q]
  BY DEF Turn
<1>2. QED
  BY <1>1, Ordered

\* What is written so far may be cut off there, and with the next text too.
LEMMA WrittenCuts ==
    ASSUME NEW a, Holds(a), op[a].phase \in {"archive", "write"},
           ProjectFile \in DOMAIN op[a].text
    PROVE  /\ op[a].changed \in Partial(op[a].text)
           /\ \A p : Turn(a, p) => op[a].changed \cup {p} \in Partial(op[a].text)
<1> DEFINE D == DOMAIN op[a].text
           c == op[a].changed
           t == op[a].todo
<1>1. c = D \ t /\ t \subseteq D /\ t \subseteq Path
  BY DEF Holds, Progress
<1>2. \A p : Turn(a, p) => p \in t
  BY DEF Turn
<1>3. CASE Late(op[a].text)
  BY <1>1, <1>2, <1>3 DEF Partial
<1>4. CASE ~Late(op[a].text)
  <2>1. ProjectFile \in t
    BY <1>4 DEF Holds, Progress
  <2>2. c \in Cuts(op[a].text)
    BY <1>1, <2>1 DEF Cuts
  <2>3. ASSUME NEW p, Turn(a, p) PROVE c \cup {p} \in Cuts(op[a].text)
    <3>1. p \in t
      BY <1>2, <2>3
    <3>2. p = ProjectFile => t = {ProjectFile}
      BY <1>1, <1>4, <2>3, ProjectFileLast
    <3>3. QED
      BY <1>1, <2>1, <3>1, <3>2 DEF Cuts
  <2>4. QED
    BY <1>4, <2>2, <2>3 DEF Partial
<1>5. QED
  BY <1>3, <1>4

LEMMA WholeIsPartial == ASSUME NEW text PROVE DOMAIN text \in Partial(text)
  BY DEF Partial, Cuts

\* A save that is cut off leaves a project that loads, but for one that is fragile.
LEMMA CutOff ==
    ASSUME NEW a, Holds(a), ~window, ~Fragile(op[a])
    PROVE  Loads(files)
<1> DEFINE r == op[a]
<1>1. CASE r.kind = "rewrite"
  <2>1. r.phase = "write"
    BY <1>1 DEF Holds, OpType, SavePhases, Fragile
  <2>2. r.changed = {}
    BY <1>1, <2>1 DEF Holds, Plan, Progress, OpType
  <2>3. files = r.before
    BY <2>1, <2>2, OverlayNone DEF Holds, Plan, Progress
  <2>4. QED
    BY <2>3 DEF Holds, Plan
<1>2. CASE r.kind # "rewrite"
  <2>1. /\ SafeSave(r.before, r.text) /\ ProjectFile \in DOMAIN r.text
        /\ r.phase \in SavePhases /\ (r.kind = "add" => ~Late(r.text))
        /\ r.kind \in {"add", "apply"}
    BY <1>2 DEF Holds, Plan
  <2>2. \E S \in Cuts(r.text) : files = Overlay(r.before, r.text, S)
    <3>1. CASE r.phase = "archive"
      <4>1. {} \in Cuts(r.text)
        BY DEF Cuts
      <4>2. QED
        BY <3>1, <4>1 DEF Holds, Progress
    <3>2. CASE r.phase = "write"
      <4>1. ~Late(r.text)
        BY <2>1, <3>2 DEF Fragile
      <4>2. r.changed \in Cuts(r.text)
        BY <2>1, <3>2, <4>1, WrittenCuts DEF Partial
      <4>3. QED
        BY <3>2, <4>2 DEF Holds, Progress
    <3>3. CASE r.phase = "check"
      <4>1. DOMAIN r.text \in Cuts(r.text)
        BY DEF Cuts
      <4>2. QED
        BY <3>3, <4>1 DEF Holds, Progress
    <3>4. CASE r.phase = "undo"
      <4>1. ~Late(r.text)
        BY <2>1, <3>4 DEF Fragile
      <4>2. QED
        BY <3>4, <4>1 DEF Holds, Progress, Partial
    <3>5. QED
      BY <2>1, <3>1, <3>2, <3>3, <3>4 DEF SavePhases
  <2>3. QED
    BY <2>1, <2>2 DEF SafeSave
<1>3. QED
  BY <1>1, <1>2

LEMMA ArchiveStep ==
    ASSUME Inductive, NEW a \in Actor, Archive(a) PROVE Inductive'
<1> DEFINE r == [op[a] EXCEPT !.phase = "write", !.archived = TRUE]
<1>1. op[a].phase = "archive" /\ Holds(a)
  BY Holding DEF Archive, SavePhases
<1>2. /\ StateType /\ op' = [op EXCEPT ![a] = r] /\ vm' = [vm EXCEPT !.disk = FALSE]
      /\ UNCHANGED <<files, lock, form, prepared, drift, window, saves, faults, crashes>>
  BY <1>1 DEF Archive, Holds, trackVars, counters
<1>3. r = Operation(op[a].kind, "write", op[a].unread, op[a].todo, op[a].text, op[a].changed,
                    op[a].before, TRUE, op[a].failed)
  BY <1>1, ArchivedFields, Zenon DEF Holds
<1> HIDE DEF r
<1>4. /\ Fields(r) /\ r.kind = op[a].kind /\ r.phase = "write" /\ r.unread = op[a].unread
      /\ r.todo = op[a].todo /\ r.text = op[a].text /\ r.changed = op[a].changed
      /\ r.before = op[a].before /\ r.archived = TRUE /\ r.failed = op[a].failed
  BY <1>3 DEF Operation, Fields
<1>5. /\ op' = [b \in Actor |-> op'[b]] /\ op'[a] = r
      /\ \A b \in Actor \ {a} : op'[b] = op[b]
  BY <1>2 DEF StateType
<1>6. op[a].kind = "apply"
  BY <1>1 DEF Holds, OpType
<1>7. OpType(r) /\ r.phase \in SavePhases
  BY <1>1, <1>4, <1>6 DEF Holds, OpType, SavePhases
<1>8. Plan(r)
  BY <1>1, <1>4 DEF Holds, Plan
<1>9. vm' \in [running : BOOLEAN, disk : BOOLEAN] /\ vm'.disk = FALSE
  BY <1>1, <1>2 DEF Holds, Scalars
<1>10. Scalars'
  BY <1>1, <1>2, <1>9 DEF Holds, Scalars
<1>11. Progress(op[a])'
  BY <1>1, <1>2, <1>4, <1>5 DEF Holds, Progress
<1>12. Disk(op[a])'
  BY <1>1, <1>2, <1>4, <1>5, <1>9 DEF Holds, Disk, Matches
<1>13. DiskMatchesSources'
  BY <1>9 DEF DiskMatchesSources
<1>14. r.kind = "apply" => form[a] = SnapshotOf(r.before)
  BY <1>1, <1>4 DEF Holds
<1>15. lock = a /\ lock' = a /\ IsDirectory(files')
  BY <1>1, <1>2 DEF Holds
<1>16. QED
  BY <1>2, <1>5, <1>7, <1>8, <1>10, <1>11, <1>12, <1>13, <1>14, <1>15, Working

\* A text is written.
LEMMA WrittenFiles ==
    ASSUME NEW a, Holds(a), op[a].phase = "write", NEW p \in op[a].todo
    PROVE  /\ Put(files, p, op[a].text[p]) = Overlay(op[a].before, op[a].text, op[a].changed \cup {p})
           /\ IsDirectory(Put(files, p, op[a].text[p]))
<1> DEFINE r == op[a]
<1>1. files = Overlay(r.before, r.text, r.changed) /\ r.changed \cup {p} \subseteq DOMAIN r.text
  BY DEF Holds, Progress
<1>2. Put(files, p, r.text[p]) = Overlay(r.before, r.text, r.changed \cup {p})
  BY <1>1, OverlayPut
<1>3. IsDirectory(Overlay(r.before, r.text, r.changed \cup {p}))
  BY <1>1, OverlayDirectory DEF Holds, Plan
<1>4. QED
  BY <1>2, <1>3

LEMMA FinishStep ==
    ASSUME Inductive, NEW a \in Actor, Holds(a), NEW saved, Finish(a, saved)
    PROVE  /\ lock = a /\ lock' = NoOne
           /\ op' = [b \in Actor |-> op'[b]] /\ \A b \in Actor \ {a} : op'[b] = op[b]
           /\ op'[a] = Idle /\ form' = [b \in Actor |-> form'[b]]
  BY DEF Holds, StateType, Finish

LEMMA WriteStep ==
    ASSUME Inductive, NEW a \in Actor, NEW p, Write(a, p) PROVE Inductive'
<1>1. /\ op[a].phase = "write" /\ Turn(a, p) /\ p \in op[a].todo
      /\ files' = Put(files, p, op[a].text[p])
      /\ drift' = (drift \/ (vm.disk /\ op[a].kind # "apply"))
      /\ UNCHANGED <<vm, prepared, window, counters>>
  BY Zenon DEF Write, Turn
<1>2. Holds(a)
  BY <1>1, Holding DEF SavePhases
<1>3. /\ files' = Overlay(op[a].before, op[a].text, op[a].changed \cup {p})
      /\ IsDirectory(files')
  BY <1>1, <1>2, WrittenFiles
<1>4. UNCHANGED <<vm, prepared, window, saves, faults, crashes>>
  BY <1>1 DEF counters
<1>5. Scalars' /\ drift' \in BOOLEAN
  BY <1>1, <1>2, <1>4 DEF Holds, Scalars
<1>6. vm.disk => drift'
  BY <1>1, <1>2 DEF Holds, Disk
<1>7. DiskMatchesSources'
  BY <1>4, <1>6 DEF DiskMatchesSources
<1>8. CASE op[a].todo = {p} /\ op[a].kind = "add"
  <2>1. Finish(a, TRUE)
    BY <1>8, Zenon DEF Write
  <2>2. op[a].changed \cup {p} = DOMAIN op[a].text
    BY <1>1, <1>2, <1>8 DEF Holds, Progress
  <2>3. DOMAIN op[a].text \in Cuts(op[a].text)
    BY DEF Cuts
  <2>4. Loads(files')
    BY <1>2, <1>3, <1>8, <2>2, <2>3 DEF Holds, Plan, SafeSave
  <2>5. LoadableWhenFree'
    BY <2>4 DEF LoadableWhenFree
  <2>6. QED
    BY <1>2, <1>3, <1>5, <1>7, <2>1, <2>5, FinishStep, Finished
<1>9. CASE ~(op[a].todo = {p} /\ op[a].kind = "add")
  <2> DEFINE t == op[a].todo \ {p}
             c == op[a].changed \cup {p}
             ph == IF op[a].todo = {p} THEN "check" ELSE "write"
             r == Written(op[a], t, c, ph)
  <2>1. op' = [op EXCEPT ![a] = r] /\ UNCHANGED <<lock, form>>
    BY <1>9, Zenon DEF Write, Written
  <2>2. r = Operation(op[a].kind, ph, op[a].unread, t, op[a].text, c,
                      op[a].before, op[a].archived, op[a].failed)
    BY <1>2, WrittenFields DEF Holds
  <2> HIDE DEF r
  <2>3. /\ Fields(r) /\ r.kind = op[a].kind /\ r.phase = ph /\ r.unread = op[a].unread
        /\ r.todo = t /\ r.text = op[a].text /\ r.changed = c
        /\ r.before = op[a].before /\ r.archived = op[a].archived /\ r.failed = op[a].failed
    BY <2>2 DEF Operation, Fields
  <2>4. /\ op' = [b \in Actor |-> op'[b]] /\ op'[a] = r
        /\ \A b \in Actor \ {a} : op'[b] = op[b]
    BY <1>2, <2>1 DEF Holds, StateType
  <2>5. /\ c = DOMAIN op[a].text \ t /\ t \cup c \subseteq DOMAIN op[a].text
        /\ ph = "check" => c = DOMAIN op[a].text
        /\ ph \in {"write", "check"} /\ (ph = "write" => t # {})
        /\ ph = "check" => op[a].kind \in {"rewrite", "apply"}
    BY <1>1, <1>2, <1>9 DEF Holds, Progress
  <2>6. ph = "write" /\ ProjectFile \in DOMAIN op[a].text /\ ~Late(op[a].text)
            => ProjectFile \in t
    <3>1. ProjectFile \in DOMAIN op[a].text /\ ~Late(op[a].text) => ProjectFile \in op[a].todo
      BY <1>1, <1>2 DEF Holds, Progress
    <3>2. p = ProjectFile /\ ~Late(op[a].text) => op[a].todo = {p}
      BY <1>1, <1>2, ProjectFileLast DEF Holds
    <3>3. QED
      BY <3>1, <3>2
  <2> HIDE DEF t, ph
  <2>7. OpType(r) /\ r.phase \in SavePhases
    BY <1>1, <1>2, <2>3, <2>5 DEF Holds, OpType, SavePhases
  <2>8. Plan(r)
    BY <1>2, <2>3 DEF Holds, Plan
  <2>9. Progress(op[a])'
    <3>1. (op[a])' = r
      BY <2>4
    <3>2. QED
      BY <1>3, <2>3, <2>5, <2>6, <3>1 DEF Progress
  <2>10. Disk(op[a])'
    <3>1. (op[a])' = r
      BY <2>4
    <3>2. QED
      BY <1>1, <1>2, <1>4, <1>6, <2>3, <2>5, <3>1 DEF Disk, Holds, Matches
  <2>11. r.kind = "apply" => form[a] = SnapshotOf(r.before)
    BY <1>2, <2>3 DEF Holds
  <2>12. lock = a /\ lock' = a
    BY <1>2, <2>1 DEF Holds
  <2>13. QED
    BY <1>3, <1>5, <1>7, <2>1, <2>4, <2>7, <2>8, <2>9, <2>10, <2>11, <2>12, Working
<1>10. QED
  BY <1>8, <1>9

LEMMA WriteFailsStep ==
    ASSUME Inductive, NEW a \in Actor, NEW p \in op[a].todo, WriteFails(a, p)
    PROVE  Inductive'
<1>1. /\ op[a].phase \in {"archive", "write"} /\ Turn(a, p)
      /\ faults < MaxFaults /\ faults' = faults + 1
      /\ \/ op[a].phase = "write" /\ files' = Put(files, p, op[a].text[p])
         \/ UNCHANGED files
      /\ window' = (window \/ (op[a].kind = "rewrite" /\ files' # files))
      /\ drift' = (drift \/ (vm.disk /\ files' # files))
      /\ UNCHANGED <<vm, prepared, saves, crashes>>
  BY Zenon DEF WriteFails
<1>2. Holds(a)
  BY <1>1, Holding DEF SavePhases
<1>3. IsDirectory(files')
  BY <1>1, <1>2, WrittenFiles DEF Holds
<1>4. Scalars'
  <2>1. faults' \in 0..MaxFaults
    BY <1>1, <1>2, SourcesAssumption DEF Holds, Scalars
  <2>2. window' \in BOOLEAN /\ drift' \in BOOLEAN
    BY <1>1, <1>2 DEF Holds, Scalars
  <2>3. QED
    BY <1>1, <1>2, <2>1, <2>2 DEF Holds, Scalars
<1>5. DiskMatchesSources'
  <2> SUFFICES ASSUME vm'.disk, ~drift' PROVE Matches(files)'
    BY DEF DiskMatchesSources
  <2>1. vm.disk /\ ~drift /\ files' = files /\ prepared' = prepared
    BY <1>1
  <2>2. QED
    BY <2>1 DEF Inductive, DiskMatchesSources, Matches
<1>6. CASE op[a].kind = "apply" /\ op[a].phase = "write"
  <2> DEFINE c == op[a].changed \cup {p}
             r == [op[a] EXCEPT !.changed = c, !.phase = "undo"]
  <2>1. op' = [op EXCEPT ![a] = r] /\ UNCHANGED <<lock, form>>
    BY <1>6, Zenon DEF WriteFails
  <2>2. r = Operation(op[a].kind, "undo", op[a].unread, op[a].todo, op[a].text, c,
                      op[a].before, op[a].archived, op[a].failed)
    BY <1>2, UndoingFields, Zenon DEF Holds
  <2> HIDE DEF r
  <2>3. /\ Fields(r) /\ r.kind = op[a].kind /\ r.phase = "undo" /\ r.unread = op[a].unread
        /\ r.todo = op[a].todo /\ r.text = op[a].text /\ r.changed = c
        /\ r.before = op[a].before /\ r.archived = op[a].archived /\ r.failed = op[a].failed
    BY <2>2 DEF Operation, Fields
  <2>4. /\ op' = [b \in Actor |-> op'[b]] /\ op'[a] = r
        /\ \A b \in Actor \ {a} : op'[b] = op[b]
    BY <1>2, <2>1 DEF Holds, StateType
  <2>5. op[a].changed \in Partial(op[a].text) /\ c \in Partial(op[a].text)
    <3>1. ProjectFile \in DOMAIN op[a].text
      BY <1>2, <1>6 DEF Holds, Plan
    <3>2. QED
      BY <1>1, <1>2, <3>1, WrittenCuts
  <2>6. \E S \in Partial(op[a].text) :
            S \subseteq c /\ files' = Overlay(op[a].before, op[a].text, S)
    <3>1. CASE files' = Put(files, p, op[a].text[p])
      BY <1>2, <1>6, <2>5, <3>1, WrittenFiles
    <3>2. CASE UNCHANGED files
      <4>1. files = Overlay(op[a].before, op[a].text, op[a].changed)
        BY <1>2, <1>6 DEF Holds, Progress
      <4>2. QED
        BY <2>5, <3>2, <4>1
    <3>3. QED
      BY <1>1, <3>1, <3>2
  <2>7. c \subseteq DOMAIN op[a].text /\ ~op[a].failed
    BY <1>2, <1>6 DEF Holds, OpType
  <2> HIDE DEF c
  <2>8. OpType(r) /\ r.phase \in SavePhases
    BY <1>2, <1>6, <2>3, <2>7 DEF Holds, OpType, SavePhases
  <2>9. Plan(r)
    BY <1>2, <2>3 DEF Holds, Plan
  <2>10. (op[a])' = r
    BY <2>4
  <2>11. Progress(op[a])'
    BY <2>3, <2>6, <2>7, <2>10 DEF Progress
  <2>12. Disk(op[a])'
    <3>1. ~vm.disk
      BY <1>2, <1>6 DEF Holds, Disk
    <3>2. QED
      BY <1>1, <1>2, <1>6, <2>3, <2>10, <3>1 DEF Disk, Holds, Matches
  <2>13. r.kind = "apply" => form[a] = SnapshotOf(r.before)
    BY <1>2, <2>3 DEF Holds
  <2>14. lock = a /\ lock' = a
    BY <1>2, <2>1 DEF Holds
  <2>15. QED
    BY <1>3, <1>4, <1>5, <2>1, <2>4, <2>8, <2>9, <2>11, <2>12, <2>13, <2>14, Working
<1>7. CASE ~(op[a].kind = "apply" /\ op[a].phase = "write")
  <2>1. Finish(a, FALSE)
    BY <1>7, Zenon DEF WriteFails
  <2>2. LoadableWhenFree'
    <3> SUFFICES ASSUME ~window' PROVE Loads(files')
      BY DEF LoadableWhenFree
    <3>1. ~window
      BY <1>1
    <3>2. CASE UNCHANGED files
      <4>1. ~Fragile(op[a])
        BY <1>1, <1>7 DEF Fragile
      <4>2. Loads(files)
        BY <1>2, <3>1, <4>1, CutOff
      <4>3. QED
        BY <3>2, <4>2
    <3>3. CASE files' # files
      <4>1. op[a].kind = "add" /\ op[a].phase = "write"
        BY <1>1, <1>2, <1>7, <3>3 DEF Holds
      <4>2. /\ SafeSave(op[a].before, op[a].text) /\ ProjectFile \in DOMAIN op[a].text
            /\ ~Late(op[a].text)
        BY <1>2, <4>1 DEF Holds, Plan
      <4>3. files' = Overlay(op[a].before, op[a].text, op[a].changed \cup {p})
        BY <1>1, <1>2, <3>3, <4>1, WrittenFiles
      <4>4. op[a].changed \cup {p} \in Cuts(op[a].text)
        BY <1>1, <1>2, <4>2, WrittenCuts DEF Partial
      <4>5. QED
        BY <4>2, <4>3, <4>4 DEF SafeSave
    <3>4. QED
      BY <3>2, <3>3
  <2>3. QED
    BY <1>2, <1>3, <1>4, <1>5, <2>1, <2>2, FinishStep, Finished
<1>8. QED
  BY <1>6, <1>7

LEMMA CheckStep ==
    ASSUME Inductive, NEW a \in Actor, Check(a) PROVE Inductive'
<1>1. Holds(a) /\ op[a].phase = "check" /\ UNCHANGED <<files, vm, trackVars, counters>>
  BY Holding DEF Check, SavePhases
<1>2. UNCHANGED <<files, vm, prepared, drift, window, saves, faults, crashes>>
  BY <1>1 DEF trackVars, counters
<1>3. Scalars' /\ IsDirectory(files') /\ DiskMatchesSources'
  BY <1>1, <1>2 DEF Holds, Scalars, Inductive, DiskMatchesSources, Matches
<1>4. CASE Loads(files)
  <2>1. Finish(a, TRUE)
    BY <1>4, Zenon DEF Check
  <2>2. LoadableWhenFree'
    BY <1>2, <1>4 DEF LoadableWhenFree
  <2>3. QED
    BY <1>1, <1>3, <2>1, <2>2, FinishStep, Finished
<1>5. CASE ~Loads(files)
  <2> DEFINE r == [op[a] EXCEPT !.phase = "undo"]
  <2>1. op' = [op EXCEPT ![a] = r] /\ UNCHANGED <<lock, form>>
    BY <1>5, Zenon DEF Check
  <2>2. r = Operation(op[a].kind, "undo", op[a].unread, op[a].todo, op[a].text,
                      op[a].changed, op[a].before, op[a].archived, op[a].failed)
    BY <1>1, PhaseField, Zenon DEF Holds
  <2> HIDE DEF r
  <2>3. /\ Fields(r) /\ r.kind = op[a].kind /\ r.phase = "undo" /\ r.unread = op[a].unread
        /\ r.todo = op[a].todo /\ r.text = op[a].text /\ r.changed = op[a].changed
        /\ r.before = op[a].before /\ r.archived = op[a].archived /\ r.failed = op[a].failed
    BY <2>2 DEF Operation, Fields
  <2>4. /\ op' = [b \in Actor |-> op'[b]] /\ op'[a] = r
        /\ \A b \in Actor \ {a} : op'[b] = op[b]
    BY <1>1, <2>1 DEF Holds, StateType
  <2>5. OpType(r) /\ r.phase \in SavePhases
    BY <1>1, <2>3 DEF Holds, OpType, SavePhases
  <2>6. Plan(r)
    BY <1>1, <2>3 DEF Holds, Plan
  <2>7. (op[a])' = r
    BY <2>4
  <2>8. Progress(op[a])'
    <3>1. /\ op[a].changed = DOMAIN op[a].text /\ ~op[a].failed
          /\ files = Overlay(op[a].before, op[a].text, DOMAIN op[a].text)
      BY <1>1 DEF Holds, Progress, OpType
    <3>2. DOMAIN op[a].text \in Partial(op[a].text)
      BY WholeIsPartial
    <3>3. QED
      BY <1>2, <2>3, <2>7, <3>1, <3>2 DEF Progress
  <2>9. Disk(op[a])'
    BY <1>1, <1>2, <2>3, <2>7 DEF Disk, Holds, Matches
  <2>10. r.kind = "apply" => form[a] = SnapshotOf(r.before)
    BY <1>1, <2>3 DEF Holds
  <2>11. lock = a /\ lock' = a
    BY <1>1, <2>1 DEF Holds
  <2>12. QED
    BY <1>3, <2>1, <2>4, <2>5, <2>6, <2>8, <2>9, <2>10, <2>11, Working
<1>6. QED
  BY <1>4, <1>5

LEMMA RestoredDirectory ==
    ASSUME NEW fs, NEW gs, IsDirectory(fs), IsDirectory(gs), NEW p
    PROVE  IsDirectory(Restored(fs, gs, p))
  BY DEF Restored, IsDirectory, Put

\* What is left to undo after the last of the changed texts is restored.
LEMMA RestoredFiles ==
    ASSUME NEW a, Holds(a), op[a].phase = "undo", ~(op[a].failed /\ window /\ drift),
           NEW p \in op[a].changed, \A q \in op[a].changed : WriteOrder[q] <= WriteOrder[p]
    PROVE  \E S \in Partial(op[a].text) :
               /\ S \subseteq op[a].changed \ {p}
               /\ Restored(files, op[a].before, p) = Overlay(op[a].before, op[a].text, S)
<1> DEFINE r == op[a]
<1>1. PICK S \in Partial(r.text) :
          S \subseteq r.changed /\ files = Overlay(r.before, r.text, S)
  BY DEF Holds, Progress
<1>2. Restored(files, r.before, p) = Overlay(r.before, r.text, S \ {p})
  BY <1>1, OverlayRestored
<1>3. p \in DOMAIN r.text /\ p \in Path /\ S \subseteq DOMAIN r.text
  BY <1>1 DEF Holds
<1>4. S \ {p} \in Partial(r.text)
  <2>1. CASE Late(r.text)
    BY <1>3, <2>1 DEF Partial
  <2>2. CASE ~Late(r.text)
    <3>1. ProjectFile \in r.changed => p = ProjectFile
      BY <1>3, <2>2, Ordered
    <3>2. ProjectFile \notin S \ {p}
      BY <1>1, <3>1
    <3>3. QED
      BY <1>3, <2>2, <3>2 DEF Partial, Cuts
  <2>3. QED
    BY <2>1, <2>2
<1>5. S \ {p} \subseteq r.changed \ {p}
  BY <1>1
<1>6. QED
  BY <1>2, <1>4, <1>5

LEMMA UndoStep ==
    ASSUME Inductive, NEW a \in Actor, NEW p \in op[a].changed, Undo(a, p)
    PROVE  Inductive'
<1> DEFINE c == op[a].changed \ {p}
<1>1. Holds(a) /\ op[a].phase = "undo"
  BY Holding DEF Undo, SavePhases
<1>2. UNCHANGED <<lock, form, vm, prepared, saves, crashes>>
  BY DEF Undo
<1>3. op[a].kind \in {"rewrite", "apply"} /\ (vm.disk => drift)
  BY <1>1 DEF Holds, OpType, Disk
<1>4. \A q \in op[a].changed : WriteOrder[q] <= WriteOrder[p]
  BY DEF Undo
<1>5. CASE /\ files' = Restored(files, op[a].before, p)
           /\ op' = [op EXCEPT ![a] = [op[a] EXCEPT !.changed = c]]
           /\ UNCHANGED <<faults, window, drift>>
  <2> DEFINE r == [op[a] EXCEPT !.changed = c]
  <2>1. op' = [op EXCEPT ![a] = r]
    BY <1>5
  <2>2. r = Operation(op[a].kind, op[a].phase, op[a].unread, op[a].todo, op[a].text, c,
                      op[a].before, op[a].archived, op[a].failed)
    BY <1>1, ChangedField, Zenon DEF Holds
  <2> HIDE DEF r
  <2>3. /\ Fields(r) /\ r.kind = op[a].kind /\ r.phase = "undo" /\ r.unread = op[a].unread
        /\ r.todo = op[a].todo /\ r.text = op[a].text /\ r.changed = c
        /\ r.before = op[a].before /\ r.archived = op[a].archived /\ r.failed = op[a].failed
    BY <1>1, <2>2 DEF Operation, Fields
  <2>4. /\ op' = [b \in Actor |-> op'[b]] /\ op'[a] = r
        /\ \A b \in Actor \ {a} : op'[b] = op[b]
    BY <1>1, <2>1 DEF Holds, StateType
  <2>5. OpType(r) /\ r.phase \in SavePhases
    BY <1>1, <2>3 DEF Holds, OpType, SavePhases
  <2>6. Plan(r)
    BY <1>1, <2>3 DEF Holds, Plan
  <2>7. (op[a])' = r
    BY <2>4
  <2>8. Progress(op[a])'
    <3>1. CASE op[a].failed /\ window /\ drift
      BY <1>1, <1>5, <2>3, <2>7, <3>1 DEF Holds, Progress
    <3>2. CASE ~(op[a].failed /\ window /\ drift)
      <4>1. \E S \in Partial(op[a].text) :
                S \subseteq c /\ files' = Overlay(op[a].before, op[a].text, S)
        BY <1>1, <1>4, <1>5, <3>2, RestoredFiles
      <4>2. QED
        BY <2>3, <2>7, <3>2, <4>1 DEF Progress
    <3>3. QED
      BY <3>1, <3>2
  <2>9. Disk(op[a])'
    BY <1>1, <1>2, <1>5, <2>3, <2>7 DEF Disk, Holds, Matches
  <2>10. r.kind = "apply" => form[a] = SnapshotOf(r.before)
    BY <1>1, <2>3 DEF Holds
  <2>11. lock = a /\ lock' = a
    BY <1>1, <1>2 DEF Holds
  <2>12. IsDirectory(files')
    BY <1>1, <1>5, RestoredDirectory DEF Holds, Plan
  <2>13. Scalars'
    BY <1>1, <1>2, <1>5 DEF Holds, Scalars
  <2>14. DiskMatchesSources'
    BY <1>2, <1>3, <1>5 DEF DiskMatchesSources
  <2>15. QED
    BY <1>2, <2>4, <2>5, <2>6, <2>8, <2>9, <2>10, <2>11, <2>12, <2>13, <2>14, Working
<1>6. CASE /\ faults < MaxFaults /\ faults' = faults + 1
           /\ op' = [op EXCEPT ![a] = [op[a] EXCEPT !.changed = c, !.failed = TRUE]]
           /\ window' = TRUE /\ drift' = TRUE
           /\ UNCHANGED files
  <2> DEFINE r == [op[a] EXCEPT !.changed = c, !.failed = TRUE]
  <2>1. op' = [op EXCEPT ![a] = r]
    BY <1>6
  <2>2. r = Operation(op[a].kind, op[a].phase, op[a].unread, op[a].todo, op[a].text, c,
                      op[a].before, op[a].archived, TRUE)
    <3>1. Fields(op[a])
      BY <1>1 DEF Holds
    <3> HIDE DEF c
    <3>2. QED
      BY <3>1, UnrestoredFields, Zenon
  <2> HIDE DEF r
  <2>3. /\ Fields(r) /\ r.kind = op[a].kind /\ r.phase = "undo" /\ r.unread = op[a].unread
        /\ r.todo = op[a].todo /\ r.text = op[a].text /\ r.changed = c
        /\ r.before = op[a].before /\ r.archived = op[a].archived /\ r.failed = TRUE
    BY <1>1, <2>2 DEF Operation, Fields
  <2>4. /\ op' = [b \in Actor |-> op'[b]] /\ op'[a] = r
        /\ \A b \in Actor \ {a} : op'[b] = op[b]
    BY <1>1, <2>1 DEF Holds, StateType
  <2>5. OpType(r) /\ r.phase \in SavePhases
    BY <1>1, <2>3 DEF Holds, OpType, SavePhases
  <2>6. Plan(r)
    BY <1>1, <2>3 DEF Holds, Plan
  <2>7. (op[a])' = r
    BY <2>4
  <2>8. Progress(op[a])'
    BY <1>6, <2>3, <2>7 DEF Progress
  <2>9. Disk(op[a])'
    BY <1>1, <1>2, <1>6, <2>3, <2>7 DEF Disk, Holds, Matches
  <2>10. r.kind = "apply" => form[a] = SnapshotOf(r.before)
    BY <1>1, <2>3 DEF Holds
  <2>11. lock = a /\ lock' = a
    BY <1>1, <1>2 DEF Holds
  <2>12. IsDirectory(files') /\ DiskMatchesSources'
    BY <1>1, <1>6 DEF Holds, DiskMatchesSources
  <2>13. Scalars'
    BY <1>1, <1>2, <1>6, SourcesAssumption DEF Holds, Scalars
  <2>14. QED
    BY <1>2, <2>4, <2>5, <2>6, <2>8, <2>9, <2>10, <2>11, <2>12, <2>13, Working
<1>7. QED
  BY <1>5, <1>6, Zenon DEF Undo

\* All that could be restored is.
LEMMA NothingLeft ==
    ASSUME NEW a, Holds(a), op[a].phase = "undo", op[a].changed = {},
           ~(op[a].failed /\ window /\ drift)
    PROVE  files = op[a].before
<1>1. PICK S \in Partial(op[a].text) : S \subseteq op[a].changed
                                      /\ files = Overlay(op[a].before, op[a].text, S)
  BY DEF Holds, Progress
<1>2. S = {} /\ IsDirectory(op[a].before)
  BY <1>1 DEF Holds, Plan
<1>3. QED
  BY <1>1, <1>2, OverlayNone

LEMMA RenameFailsStep ==
    ASSUME Inductive, NEW a \in Actor, RenameFails(a) PROVE Inductive'
<1> DEFINE r == [op[a] EXCEPT !.archived = FALSE, !.failed = TRUE]
<1>1. Holds(a) /\ op[a].phase = "undo"
  BY Holding DEF RenameFails, SavePhases
<1>2. /\ op' = [op EXCEPT ![a] = r]
      /\ UNCHANGED <<files, lock, form, vm, prepared, drift, window, saves, faults, crashes>>
  BY DEF RenameFails, trackVars, counters
<1>3. r = Operation(op[a].kind, op[a].phase, op[a].unread, op[a].todo, op[a].text,
                    op[a].changed, op[a].before, FALSE, TRUE)
  <2>1. Fields(op[a])
    BY <1>1 DEF Holds
  <2>2. QED
    BY <2>1, RenamedFields, Zenon
<1> HIDE DEF r
<1>4. /\ Fields(r) /\ r.kind = op[a].kind /\ r.phase = "undo" /\ r.unread = op[a].unread
      /\ r.todo = op[a].todo /\ r.text = op[a].text /\ r.changed = op[a].changed
      /\ r.before = op[a].before /\ r.archived = FALSE /\ r.failed = TRUE
  BY <1>1, <1>3 DEF Operation, Fields
<1>5. /\ op' = [b \in Actor |-> op'[b]] /\ op'[a] = r
      /\ \A b \in Actor \ {a} : op'[b] = op[b]
  BY <1>1, <1>2 DEF Holds, StateType
<1>6. OpType(r) /\ r.phase \in SavePhases
  BY <1>1, <1>4 DEF Holds, OpType, SavePhases
<1>7. Plan(r)
  BY <1>1, <1>4 DEF Holds, Plan
<1>8. (op[a])' = r
  BY <1>5
<1>9. Progress(op[a])'
  BY <1>1, <1>2, <1>4, <1>8 DEF Holds, Progress
<1>10. Disk(op[a])'
  BY <1>1, <1>2, <1>4, <1>8 DEF Disk, Holds
<1>11. r.kind = "apply" => form[a] = SnapshotOf(r.before)
  BY <1>1, <1>4 DEF Holds
<1>12. lock = a /\ lock' = a /\ IsDirectory(files') /\ Scalars'
  BY <1>1, <1>2 DEF Holds, Scalars
<1>13. DiskMatchesSources'
  BY <1>2 DEF Inductive, DiskMatchesSources, Matches
<1>14. QED
  BY <1>2, <1>5, <1>6, <1>7, <1>9, <1>10, <1>11, <1>12, <1>13, Working

LEMMA UndoneStep ==
    ASSUME Inductive, NEW a \in Actor, Undone(a) PROVE Inductive'
<1>1. /\ Holds(a) /\ op[a].phase = "undo" /\ op[a].changed = {} /\ Finish(a, FALSE)
      /\ vm' = [vm EXCEPT !.disk = vm.disk \/ op[a].archived]
  BY Holding DEF Undone, SavePhases
<1>2. UNCHANGED <<files, prepared, drift, window, saves, faults, crashes>>
  BY DEF Undone, trackVars, counters
<1>3. vm' \in [running : BOOLEAN, disk : BOOLEAN] /\ vm'.disk = (vm.disk \/ op[a].archived)
  <2>1. vm \in [running : BOOLEAN, disk : BOOLEAN] /\ (vm.disk \/ op[a].archived) \in BOOLEAN
    BY <1>1 DEF Holds, Scalars
  <2> DEFINE d == vm.disk \/ op[a].archived
  <2>2. vm' = [vm EXCEPT !.disk = d]
    BY <1>1
  <2> HIDE DEF d
  <2>3. vm' \in [running : BOOLEAN, disk : BOOLEAN] /\ vm'.disk = d
    BY <2>1, <2>2 DEF d
  <2>4. QED
    BY <2>3 DEF d
<1>4. Scalars' /\ IsDirectory(files')
  BY <1>1, <1>2, <1>3 DEF Holds, Scalars
<1>5. LoadableWhenFree'
  <2> SUFFICES ASSUME ~window PROVE Loads(files)
    BY <1>2 DEF LoadableWhenFree
  <2>1. QED
    BY <1>1, NothingLeft DEF Holds, Plan
<1>6. DiskMatchesSources'
  <2> SUFFICES ASSUME vm'.disk, ~drift PROVE Matches(files)
    BY <1>2 DEF DiskMatchesSources, Matches
  <2>1. ~vm.disk
    BY <1>1 DEF Holds, Disk
  <2>2. op[a].archived
    BY <1>3, <2>1
  <2>3. files = op[a].before
    BY <1>1, NothingLeft
  <2>4. QED
    BY <1>1, <2>2, <2>3 DEF Holds, Disk
<1>7. QED
  BY <1>1, <1>4, <1>5, <1>6, FinishStep, Finished

LEMMA CrashStep ==
    ASSUME Inductive, NEW a \in Actor, Crash(a) PROVE Inductive'
<1>1. /\ op' = [op EXCEPT ![a] = Idle] /\ form' = [form EXCEPT ![a] = NoOne]
      /\ crashes < MaxCrashes /\ crashes' = crashes + 1
      /\ window' = (window \/ Fragile(op[a]))
      /\ lock' = (IF lock = a THEN NoOne ELSE lock)
      /\ UNCHANGED <<files, vm, prepared, drift, saves, faults>>
  BY DEF Crash
<1>2. StateType /\ OpType(op[a])
  BY DEF Inductive, StateType
<1>3. /\ op' = [b \in Actor |-> op'[b]] /\ op'[a] = Idle
      /\ \A b \in Actor \ {a} : op'[b] = op[b]
      /\ form' = [b \in Actor |-> form'[b]] /\ \A b \in Actor \ {a} : form'[b] = form[b]
  BY <1>1, <1>2 DEF StateType
<1>4. Scalars' /\ IsDirectory(files') /\ (window => window')
  <2>1. crashes' \in 0..MaxCrashes
    BY <1>1, <1>2, SourcesAssumption DEF StateType, Scalars
  <2>2. window' \in BOOLEAN /\ (window => window')
    <3>1. Fragile(op[a]) \in BOOLEAN /\ window \in BOOLEAN
      BY <1>2 DEF StateType, Scalars, Fragile
    <3>2. QED
      BY <1>1, <3>1
  <2>3. QED
    BY <1>1, <1>2, <2>1, <2>2 DEF StateType, Scalars
<1>5. CASE lock # a
  <2>1. OpType(op'[a]) /\ op'[a].phase \notin SavePhases
    BY <1>3, IdleFields DEF SavePhases
  <2>2. UNCHANGED <<files, lock, vm, prepared, drift>>
    BY <1>1, <1>5
  <2>3. QED
    BY <1>3, <1>4, <1>5, <2>1, <2>2, Besides
<1>6. CASE lock = a
  <2>1. Holds(a)
    BY <1>2, <1>6, Holding DEF StateType
  <2>2. LoadableWhenFree'
    <3> SUFFICES ASSUME ~window' PROVE Loads(files)
      BY <1>1 DEF LoadableWhenFree
    <3>1. ~window /\ ~Fragile(op[a])
      BY <1>1
    <3>2. QED
      BY <2>1, <3>1, CutOff
  <2>3. DiskMatchesSources'
    BY <1>1 DEF Inductive, DiskMatchesSources, Matches
  <2>4. lock' = NoOne
    BY <1>1, <1>6
  <2>5. QED
    BY <1>3, <1>4, <1>6, <2>2, <2>3, <2>4, Finished
<1>7. QED
  BY <1>5, <1>6

LEMMA LoadedFrom ==
    ASSUME NEW r, Fields(r), NEW k, NEW ph, NEW b
    PROVE  [r EXCEPT !.kind = k, !.phase = ph, !.before = b] =
               Operation(k, ph, r.unread, r.todo, r.text, r.changed,
                         b, r.archived, r.failed)
<1> DEFINE i1 == [r EXCEPT !.kind = k]
           i2 == [i1 EXCEPT !.phase = ph]
           i3 == [i2 EXCEPT !.before = b]
<1>1. i1 = Operation(k, r.phase, r.unread, r.todo, r.text, r.changed,
                    r.before, r.archived, r.failed)
  BY FieldsOf DEF Operation
<1> HIDE DEF i1
<1>2. i2 = Operation(k, ph, r.unread, r.todo, r.text, r.changed,
                    r.before, r.archived, r.failed)
  BY <1>1 DEF Operation
<1> HIDE DEF i2
<1>3. i3 = Operation(k, ph, r.unread, r.todo, r.text, r.changed,
                    b, r.archived, r.failed)
  BY <1>2 DEF Operation
<1>4. QED
  BY <1>3, Zenon DEF i1, i2

LEMMA LoadedFields ==
    ASSUME NEW b
    PROVE  [Idle EXCEPT !.kind = "run", !.phase = "loaded", !.before = b] =
               Operation("run", "loaded", <<>>, {}, <<>>, {}, b, FALSE, FALSE)
<1>0. Fields(Idle)
  BY IdleFields DEF OpType
<1>1. [Idle EXCEPT !.kind = "run", !.phase = "loaded", !.before = b] =
          Operation("run", "loaded", Idle.unread, Idle.todo, Idle.text, Idle.changed, b,
                    Idle.archived, Idle.failed)
  BY <1>0, LoadedFrom, Zenon
<1>2. QED
  BY <1>1, IdleFields, Zenon

LEMMA LoadForRunStep ==
    ASSUME Inductive, NEW a \in Actor, LoadForRun(a) PROVE Inductive'
<1> DEFINE r == [Idle EXCEPT !.kind = "run", !.phase = "loaded", !.before = File]
<1>1. /\ StateType /\ OpType(op[a]) /\ op[a].kind = "none" /\ Loads(files)
      /\ op' = [op EXCEPT ![a] = r]
      /\ UNCHANGED <<files, lock, form, vm, prepared, drift, window, saves, faults, crashes>>
  BY DEF Inductive, StateType, LoadForRun, trackVars, counters
<1>2. IsText(File)
  BY <1>1, LoadedProject DEF StateType, File, IsDirectory
<1>3. r = Operation("run", "loaded", <<>>, {}, <<>>, {}, File, FALSE, FALSE)
  BY LoadedFields
<1> HIDE DEF r
<1>4. /\ Fields(r) /\ r.kind = "run" /\ r.phase = "loaded" /\ r.unread = <<>>
      /\ r.todo = {} /\ r.changed = {} /\ r.before = File
      /\ r.archived = FALSE /\ r.failed = FALSE
  BY <1>3 DEF Operation, Fields
<1>5. OpType(r) /\ r.phase \notin SavePhases
  <2>1. r.unread \in Seq(Path) /\ r.todo \cup r.changed \subseteq DOMAIN r.text
    BY <1>4
  <2>2. QED
    BY <1>2, <1>4, <2>1 DEF OpType, SavePhases
<1>6. /\ op' = [b \in Actor |-> op'[b]] /\ op'[a] = r
      /\ \A b \in Actor \ {a} : op'[b] = op[b]
      /\ form' = [b \in Actor |-> form'[b]]
  BY <1>1 DEF StateType
<1>7. lock # a /\ Scalars'
  BY <1>1 DEF StateType, Scalars, OpType, SavePhases
<1>8. QED
  BY <1>1, <1>5, <1>6, <1>7, Besides

LEMMA RunFailsStep ==
    ASSUME Inductive, NEW a \in Actor, RunFails(a) PROVE Inductive'
<1>1. /\ StateType /\ op[a].phase = "loaded" /\ op' = [op EXCEPT ![a] = Idle]
      /\ UNCHANGED <<files, lock, form, vm, prepared, drift, window, saves, faults, crashes>>
  BY DEF Inductive, RunFails, trackVars, counters
<1>2. /\ op' = [b \in Actor |-> op'[b]] /\ op'[a] = Idle
      /\ \A b \in Actor \ {a} : op'[b] = op[b]
      /\ form' = [b \in Actor |-> form'[b]]
  BY <1>1 DEF StateType
<1>3. OpType(op'[a]) /\ op'[a].phase \notin SavePhases
  BY <1>2, IdleFields DEF SavePhases
<1>4. lock # a /\ Scalars'
  BY <1>1 DEF StateType, Scalars, SavePhases
<1>5. QED
  BY <1>1, <1>2, <1>3, <1>4, Besides

LEMMA PrepareVmStep ==
    ASSUME Inductive, NEW a \in Actor, PrepareVm(a) PROVE Inductive'
<1>1. /\ StateType /\ op[a].phase = "loaded" /\ lock = NoOne
      /\ vm' = [vm EXCEPT !.disk = TRUE] /\ prepared' = Blank
      /\ UNCHANGED <<files, lock, op, form, drift, window, saves, faults, crashes>>
  BY DEF Inductive, PrepareVm, InRun, counters
<1>2. Scalars'
  BY <1>1 DEF StateType, Scalars
<1>3. DiskMatchesSources'
  BY <1>1 DEF DiskMatchesSources, Matches, Blank
<1>4. op' = [b \in Actor |-> op'[b]] /\ OpType(op'[a]) /\ op'[a].phase \notin SavePhases
  BY <1>1 DEF StateType, SavePhases
<1>5. QED
  BY <1>1, <1>2, <1>3, <1>4, Unlocked

\* What a run has initialized the disk from is the directory, but for the project file.
LEMMA SeenMatches ==
    ASSUME StateType, NEW a \in Actor, op[a].phase = "loaded", Loads(Seen(a)),
           prepared' = [sources |-> SnapshotOf(Seen(a)).sources, stale |-> Seen(a) # files],
           UNCHANGED files
    PROVE  Matches(files)'
<1> DEFINE S == Seen(a)
<1>1. S = Put(files, ProjectFile, op[a].before) /\ Loads(S)
  BY DEF Seen
<1>2. IsDirectory(S)
  <2>1. IsDirectory(files) /\ IsText(op[a].before) /\ ProjectFile \in Path
    BY SourcesAssumption DEF StateType, OpType
  <2>2. QED
    BY <1>1, <2>1, PutDirectory
<1>3. /\ DOMAIN S = DOMAIN files \cup {ProjectFile}
      /\ \A p \in DOMAIN files \ {ProjectFile} : S[p] = files[p]
  BY <1>1 DEF Put
<1>4. prepared' = [sources |-> SnapshotOf(S).sources, stale |-> S # files]
  OBVIOUS
<1> HIDE DEF S
<1> DEFINE F == S[ProjectFile]
<1>5. /\ F.nodes \in Seq(Path) /\ F.scripts \in Seq(Path)
      /\ Range(F.nodes) \cup Range(F.scripts) \subseteq DOMAIN S
  BY <1>1, <1>2, LoadedProject
<1>6. Range(Sources(F)) \subseteq DOMAIN S
  BY <1>3, <1>5, SourcesMembers
<1>7. /\ DOMAIN prepared'.sources = Range(Sources(F))
      /\ \A p \in Range(Sources(F)) : prepared'.sources[p] = S[p]
      /\ prepared'.stale = (S # files)
  BY <1>4 DEF SnapshotOf
<1> HIDE DEF F
<1>8. \A p \in Range(Sources(F)) : (p \in DOMAIN files /\ S[p] = files[p])
                                     \/ (p = ProjectFile /\ S # files)
  <2> SUFFICES ASSUME NEW p \in Range(Sources(F))
               PROVE  (p \in DOMAIN files /\ S[p] = files[p]) \/ (p = ProjectFile /\ S # files)
    OBVIOUS
  <2>1. CASE p = ProjectFile
    BY <1>6, <2>1
  <2>2. CASE p # ProjectFile
    BY <1>3, <1>6, <2>2
  <2>3. QED
    BY <2>1, <2>2
<1>9. QED
  BY <1>7, <1>8 DEF Matches

LEMMA BootVmStep ==
    ASSUME Inductive, NEW a \in Actor, BootVm(a) PROVE Inductive'
<1>1. /\ StateType /\ op[a].phase = "loaded" /\ lock = NoOne /\ vm.disk /\ Loads(Seen(a))
      /\ op' = [op EXCEPT ![a] = Idle]
      /\ UNCHANGED <<files, lock, form, window, saves, faults, crashes>>
      /\ \/ UNCHANGED <<prepared, drift>>
         \/ /\ prepared' = [sources |-> SnapshotOf(Seen(a)).sources, stale |-> Seen(a) # files]
            /\ drift' = FALSE
  BY DEF Inductive, BootVm, InRun, counters
<1>2. vm' \in [running : BOOLEAN, disk : BOOLEAN] /\ vm'.disk = vm.disk
  <2>1. PICK up \in BOOLEAN : vm' = [vm EXCEPT !.running = up]
    BY DEF BootVm
  <2>2. QED
    BY <1>1, <2>1 DEF StateType, Scalars
<1>3. Scalars'
  BY <1>1, <1>2 DEF StateType, Scalars
<1>4. /\ op' = [b \in Actor |-> op'[b]] /\ op'[a] = Idle
      /\ \A b \in Actor \ {a} : op'[b] = op[b]
  BY <1>1 DEF StateType
<1>5. OpType(op'[a]) /\ op'[a].phase \notin SavePhases
  BY <1>4, IdleFields DEF SavePhases
<1>6. DiskMatchesSources'
  <2>1. CASE UNCHANGED <<prepared, drift>>
    BY <1>1, <1>2, <2>1 DEF Inductive, DiskMatchesSources, Matches
  <2>2. CASE prepared' = [sources |-> SnapshotOf(Seen(a)).sources, stale |-> Seen(a) # files]
    <3>1. Matches(files)'
      BY <1>1, <2>2, SeenMatches
    <3>2. QED
      BY <3>1 DEF DiskMatchesSources
  <2>3. QED
    BY <1>1, <2>1, <2>2
<1>7. QED
  BY <1>1, <1>3, <1>4, <1>5, <1>6, Unlocked

LEMMA StopVmStep == ASSUME Inductive, StopVm PROVE Inductive'
<1>1. /\ lock = NoOne /\ vm' = [vm EXCEPT !.running = FALSE]
      /\ UNCHANGED <<files, lock, op, form, prepared, drift, window, saves, faults, crashes>>
  BY DEF StopVm, trackVars, counters
<1>2. StateType /\ NoOne \notin Actor
  BY SourcesAssumption DEF Inductive
<1>3. vm' \in [running : BOOLEAN, disk : BOOLEAN] /\ vm'.disk = vm.disk
  BY <1>1, <1>2 DEF StateType, Scalars
<1>4. Scalars' /\ StateType'
  BY <1>1, <1>2, <1>3 DEF StateType, Scalars
<1>5. PlanInv' /\ ProgressInv' /\ DiskInv'
  BY <1>1, <1>2 DEF PlanInv, ProgressInv, DiskInv
<1>6. LoadableWhenFree' /\ DiskMatchesSources'
  BY <1>1, <1>3 DEF Inductive, LoadableWhenFree, DiskMatchesSources, Matches
<1>7. QED
  BY <1>4, <1>5, <1>6 DEF Inductive

--------------------------------------------------------------------------------
(***************************************************************************)
(* Every step.                                                             *)
(***************************************************************************)

LEMMA NextInductive == Inductive /\ [Next]_vars => Inductive'
<1> SUFFICES ASSUME Inductive, [Next]_vars PROVE Inductive'
  OBVIOUS
<1>1. ASSUME NEW a \in Actor, OpenEditor(a) PROVE Inductive'
  BY <1>1, OpenEditorStep
<1>2. ASSUME NEW a \in Actor, ReadSource(a) PROVE Inductive'
  BY <1>2, ReadSourceStep
<1>3. ASSUME NEW a \in Actor, CloseEditor(a) PROVE Inductive'
  BY <1>3, CloseEditorStep
<1>4. ASSUME NEW a \in Actor, AddScriptInclude(a) PROVE Inductive'
  BY <1>4, AddScriptIncludeStep
<1>5. ASSUME NEW a \in Actor, AddNodeInclude(a) PROVE Inductive'
  BY <1>5, AddNodeIncludeStep
<1>6. ASSUME NEW a \in Actor, NEW w \in Rewrites, WriteProjectSource(a, w[1], w[2])
      PROVE  Inductive'
  BY <1>6, WriteProjectSourceStep
<1>7. ASSUME NEW a \in Actor, NEW edit \in Edits(form[a]),
             NEW freshGuest \in BOOLEAN, Apply(a, edit, freshGuest)
      PROVE  Inductive'
  BY <1>7, ApplyStep
<1>8. ASSUME NEW a \in Actor, Archive(a) \/ Check(a) \/ RenameFails(a) \/ Undone(a)
      PROVE  Inductive'
  BY <1>8, ArchiveStep, CheckStep, RenameFailsStep, UndoneStep
<1>9. ASSUME NEW a \in Actor, NEW p \in op[a].todo, Write(a, p) \/ WriteFails(a, p)
      PROVE  Inductive'
  BY <1>9, WriteStep, WriteFailsStep
<1>10. ASSUME NEW a \in Actor, NEW p \in op[a].changed, Undo(a, p) PROVE Inductive'
  BY <1>10, UndoStep
<1>11. ASSUME NEW a \in Actor, Crash(a) PROVE Inductive'
  BY <1>11, CrashStep
<1>12. ASSUME NEW a \in Actor, LoadForRun(a) \/ PrepareVm(a) \/ BootVm(a) \/ RunFails(a)
       PROVE  Inductive'
  BY <1>12, LoadForRunStep, PrepareVmStep, BootVmStep, RunFailsStep
<1>13. CASE UNCHANGED vars
  BY <1>13 DEF vars, trackVars, counters, Inductive, StateType, Scalars, PlanInv, ProgressInv,
               Progress, DiskInv, Disk, LoadableWhenFree, DiskMatchesSources, Matches
<1>14. CASE Next
  <2>1. CASE StopVm
    BY <2>1, StopVmStep
  <2>2. CASE ~StopVm
    <3>1. PICK a \in Actor :
        \/ OpenEditor(a) \/ ReadSource(a) \/ CloseEditor(a)
        \/ AddScriptInclude(a) \/ AddNodeInclude(a)
        \/ \E w \in Rewrites : WriteProjectSource(a, w[1], w[2])
        \/ \E edit \in IF Enter(a) /\ Current(a) THEN Edits(form[a]) ELSE {},
              freshGuest \in BOOLEAN : Apply(a, edit, freshGuest)
        \/ Archive(a) \/ Check(a) \/ RenameFails(a) \/ Undone(a)
        \/ \E p \in op[a].todo : Write(a, p) \/ WriteFails(a, p)
        \/ \E p \in op[a].changed : Undo(a, p)
        \/ LoadForRun(a) \/ PrepareVm(a) \/ BootVm(a) \/ RunFails(a)
        \/ Crash(a)
      BY <1>14, <2>2, Zenon DEF Next
    <3>2. CASE \E edit \in IF Enter(a) /\ Current(a) THEN Edits(form[a]) ELSE {},
                  freshGuest \in BOOLEAN : Apply(a, edit, freshGuest)
      BY <3>2, <1>7
    <3>3. QED
      BY <3>1, <3>2, <1>1, <1>2, <1>3, <1>4, <1>5, <1>6, <1>8, <1>9, <1>10, <1>11, <1>12
  <2>3. QED
    BY <2>1, <2>2
<1>15. QED
  BY <1>13, <1>14

LEMMA AlwaysInductive == Spec => []Inductive
<1>1. QED
  BY InitInductive, NextInductive, PTL DEF Spec

\* The state has its type: what is written or restored is written or restored under the
\* lock, by the operation that took it.
THEOREM TypeCorrect == Spec => []TypeOK
<1>1. Inductive => TypeOK
  BY DEF Inductive, StateType, Scalars, OpType, SavePhases, TypeOK
<1>2. QED
  BY <1>1, AlwaysInductive, PTL

\* However the saves of any number of editors and requests are cut off, by a failed
\* write or by the death of the process, the project loads whenever nobody holds the
\* lock, but for a replaced text that was not validated, a restore that failed and a save
\* with an include that its map has after the project file.
THEOREM Loadable == Spec => []LoadableWhenFree
  BY AlwaysInductive, PTL DEF Inductive

\* A disk in place belongs to the sources it was initialized from, until somebody other
\* than the Nodes editor changes them: its node files and scripts always, its project file
\* unless the run that initialized it had waited with an older Project.
THEOREM DiskMatches == Spec => []DiskMatchesSources
  BY AlwaysInductive, PTL DEF Inductive

--------------------------------------------------------------------------------
(***************************************************************************)
(* What a step may not do.                                                 *)
(***************************************************************************)

\* A text changes only in a write or an undoing of the operation that holds the lock.
LEMMA Changing ==
    ASSUME Inductive, [Next]_vars, NEW p \in DOMAIN files, Changes(p)
    PROVE  \E a \in Actor :
        \/ /\ Holds(a) /\ op[a].phase = "write" /\ p \in op[a].todo
           /\ files' = Put(files, p, op[a].text[p])
        \/ /\ Holds(a) /\ op[a].phase = "undo" /\ p \in op[a].changed
           /\ files' = Restored(files, op[a].before, p)
<1>1. files' # files
  BY DEF Changes
<1>2. PICK a \in Actor :
        \/ \E q \in op[a].todo : Write(a, q) \/ WriteFails(a, q)
        \/ \E q \in op[a].changed : Undo(a, q)
  <2>1. \A a \in Actor : \A w : ~WriteProjectSource(a, w[1], w[2])
    BY <1>1 DEF WriteProjectSource
  <2>2. \A a \in Actor : \A edit, freshGuest : ~Apply(a, edit, freshGuest)
    <3>1. \A a \in Actor : \A edit, freshGuest : Apply(a, edit, freshGuest) => UNCHANGED files
      BY Zenon DEF Apply
    <3>2. QED
      BY <1>1, <3>1
  <2>3. \A a \in Actor : ~AddScriptInclude(a) /\ ~AddNodeInclude(a)
    <3>1. \A a \in Actor : AddScriptInclude(a) \/ AddNodeInclude(a) => UNCHANGED files
      BY Zenon DEF AddScriptInclude, AddNodeInclude
    <3>2. QED
      BY <1>1, <3>1
  <2>4. \A a \in Actor : ~OpenEditor(a) /\ ~ReadSource(a) /\ ~CloseEditor(a)
    BY <1>1 DEF OpenEditor, ReadSource, CloseEditor
  <2>5. \A a \in Actor : ~Archive(a) /\ ~Check(a) /\ ~RenameFails(a) /\ ~Undone(a) /\ ~Crash(a)
    BY <1>1 DEF Archive, Check, RenameFails, Undone, Crash
  <2>6. (\A a \in Actor : ~LoadForRun(a) /\ ~PrepareVm(a) /\ ~BootVm(a) /\ ~RunFails(a)) /\ ~StopVm
    BY <1>1 DEF LoadForRun, PrepareVm, BootVm, RunFails, StopVm
  <2>7. ~UNCHANGED vars
    BY <1>1 DEF vars
  <2>8. QED
    BY <2>1, <2>2, <2>3, <2>4, <2>5, <2>6, <2>7, Zenon DEF Next
<1>3. ASSUME NEW q \in op[a].todo, Write(a, q) \/ WriteFails(a, q)
      PROVE  /\ Holds(a) /\ op[a].phase = "write" /\ p \in op[a].todo
             /\ files' = Put(files, p, op[a].text[p])
  <2>1. op[a].phase = "write" /\ files' = Put(files, q, op[a].text[q])
    BY <1>1, <1>3 DEF Write, WriteFails
  <2>2. p = q
    BY <2>1 DEF Put, Changes
  <2>3. Holds(a)
    BY <2>1, Holding DEF SavePhases
  <2>4. QED
    BY <2>1, <2>2, <2>3
<1>4. ASSUME NEW q \in op[a].changed, Undo(a, q)
      PROVE  /\ Holds(a) /\ op[a].phase = "undo" /\ p \in op[a].changed
             /\ files' = Restored(files, op[a].before, p)
  <2>1. op[a].phase = "undo" /\ files' = Restored(files, op[a].before, q)
    BY <1>1, <1>4 DEF Undo
  <2>2. p = q
    BY <2>1 DEF Restored, Put, Changes
  <2>3. Holds(a)
    BY <2>1, Holding DEF SavePhases
  <2>4. QED
    BY <2>1, <2>2, <2>3
<1>5. QED
  BY <1>2, <1>3, <1>4

\* A save overwrites nothing that its editor has not shown: what another process wrote
\* since the snapshot was read, file by file and without the lock, is not lost.
THEOREM LostUpdates == Spec => NoLostUpdate
<1> DEFINE A(a, p) ==
        (lock = a /\ op[a].phase = "write" /\ op[a].kind = "apply" /\ Changes(p)) =>
            p \in DOMAIN form[a].sources /\ files[p] = form[a].sources[p]
<1>1. ASSUME Inductive, [Next]_vars, NEW a \in Actor, NEW p \in DOMAIN files PROVE A(a, p)
  <2> SUFFICES ASSUME lock = a, op[a].phase = "write", op[a].kind = "apply", Changes(p)
               PROVE  p \in DOMAIN form[a].sources /\ files[p] = form[a].sources[p]
    OBVIOUS
  <2>1. PICK b \in Actor : Holds(b) /\ (\/ op[b].phase = "write" /\ p \in op[b].todo
                                       \/ op[b].phase = "undo")
    BY <1>1, Changing
  <2>2. b = a
    BY <2>1 DEF Holds
  <2>3. Holds(a) /\ p \in op[a].todo
    BY <2>1, <2>2
  <2>4. /\ op[a].changed = DOMAIN op[a].text \ op[a].todo /\ p \in DOMAIN op[a].text
        /\ files = Overlay(op[a].before, op[a].text, op[a].changed)
        /\ SourcesOnly(op[a].before, op[a].text)
        /\ form[a] = SnapshotOf(op[a].before)
    BY <2>3 DEF Holds, Progress, Plan
  <2>5. p \in DOMAIN op[a].before /\ files[p] = op[a].before[p]
    BY <2>3, <2>4 DEF Overlay
  <2>6. p \in Range(Sources(op[a].before[ProjectFile]))
    BY <2>4, <2>5 DEF SourcesOnly
  <2>7. QED
    BY <2>4, <2>5, <2>6 DEF SnapshotOf
<1>2. Inductive /\ [Next]_vars => [\A a \in Actor, p \in DOMAIN files : A(a, p)]_vars
  BY <1>1
<1> HIDE DEF A
<1>3. Spec => [][\A a \in Actor, p \in DOMAIN files : A(a, p)]_vars
  BY <1>2, AlwaysInductive, PTL DEF Spec
<1>4. QED
  BY <1>3 DEF A, NoLostUpdate

\* A file that the project does not include is changed only by write_project_source, and
\* removed only by the save that created it.
THEOREM CustomFiles == Spec => CustomFilesKept
<1> DEFINE A(p) == Changes(p) => \E a \in Actor :
        /\ lock = a
        /\ \/ p \notin DOMAIN op[a].before
           \/ p \in DOMAIN files' /\ op[a].kind = "rewrite"
           \/ p \in DOMAIN files' /\ p \in Range(Sources(op[a].before[ProjectFile]))
<1>1. ASSUME Inductive, [Next]_vars, NEW p \in DOMAIN files PROVE A(p)
  <2> SUFFICES ASSUME Changes(p) PROVE A(p)
    OBVIOUS
  <2>1. PICK a \in Actor :
        /\ Holds(a) /\ p \in op[a].todo \cup op[a].changed
        /\ files' = Put(files, p, op[a].text[p]) \/ files' = Restored(files, op[a].before, p)
    BY <1>1, Changing
  <2>2. p \in DOMAIN op[a].before => p \in DOMAIN files'
    BY <2>1 DEF Put, Restored
  <2>3. p \in DOMAIN op[a].before =>
            op[a].kind = "rewrite" \/ p \in Range(Sources(op[a].before[ProjectFile]))
    BY <2>1 DEF Holds, Plan, SourcesOnly
  <2>4. lock = a
    BY <2>1 DEF Holds
  <2>5. QED
    BY <2>2, <2>3, <2>4
<1>2. Inductive /\ [Next]_vars => [\A p \in DOMAIN files : A(p)]_vars
  BY <1>1
<1> HIDE DEF A
<1>3. Spec => [][\A p \in DOMAIN files : A(p)]_vars
  BY <1>2, AlwaysInductive, PTL DEF Spec
<1>4. QED
  BY <1>3 DEF A, CustomFilesKept

\* A save that reports a failure, and no failed restore with it, has put back every file
\* and the prepared virtual machine.
THEOREM FailedSaves == Spec => FailedSaveRestores
<1> DEFINE A(a) ==
        (op[a].phase = "undo" /\ lock' = NoOne /\ crashes' = crashes /\ ~op[a].failed) =>
            files' = op[a].before /\ (op[a].archived => vm'.disk)
<1>1. ASSUME Inductive, [Next]_vars, NEW a \in Actor PROVE A(a)
  <2> SUFFICES ASSUME op[a].phase = "undo", lock' = NoOne, crashes' = crashes, ~op[a].failed
               PROVE  files' = op[a].before /\ (op[a].archived => vm'.disk)
    OBVIOUS
  <2>1. Holds(a) /\ lock = a /\ lock # NoOne /\ NoOne \notin Actor
    BY <1>1, Holding, SourcesAssumption DEF SavePhases, Holds
  <2>2. ~\E b \in Actor : Enter(b)
    BY <2>1 DEF Enter
  <2>3. \A b \in Actor : ~AddScriptInclude(b) /\ ~AddNodeInclude(b)
                         /\ (\A w : ~WriteProjectSource(b, w[1], w[2]))
                         /\ (\A edit, freshGuest : ~Apply(b, edit, freshGuest))
    BY <2>2, Zenon DEF AddScriptInclude, AddNodeInclude, WriteProjectSource, Apply
  <2>4. \A b \in Actor : ~OpenEditor(b) /\ ~ReadSource(b) /\ ~CloseEditor(b) /\ ~Archive(b)
    BY <2>1 DEF OpenEditor, ReadSource, CloseEditor, Archive
  <2>5. /\ ~StopVm /\ ~UNCHANGED vars
        /\ \A b \in Actor : ~LoadForRun(b) /\ ~PrepareVm(b) /\ ~BootVm(b) /\ ~RunFails(b)
                           /\ ~RenameFails(b)
    BY <2>1 DEF LoadForRun, PrepareVm, BootVm, InRun, RunFails, RenameFails, StopVm, vars
  <2>6. \A b \in Actor : ~Crash(b)
    <3>1. crashes \in Nat
      BY <1>1 DEF Inductive, StateType, Scalars
    <3>2. QED
      BY <3>1 DEF Crash
  <2>7. \A b \in Actor : \A p : ~Undo(b, p)
    BY <2>1 DEF Undo
  <2>8. ASSUME NEW b \in Actor, b # a
        PROVE  op[b].phase \notin SavePhases
    BY <1>1, <2>1, <2>8 DEF Inductive, StateType
  <2>9. \A b \in Actor : \A p : ~Write(b, p) /\ ~WriteFails(b, p)
    BY <2>8, Zenon DEF Write, WriteFails, SavePhases
  <2>10. \A b \in Actor : ~Check(b) /\ (Undone(b) => b = a)
    BY <2>8 DEF Check, Undone, SavePhases
  <2>11. Undone(a)
    BY <1>1, <2>3, <2>4, <2>5, <2>6, <2>7, <2>9, <2>10, Zenon DEF Next
  <2>12. /\ op[a].changed = {} /\ UNCHANGED files
         /\ vm' = [vm EXCEPT !.disk = vm.disk \/ op[a].archived]
    BY <2>11 DEF Undone
  <2>13. files' = op[a].before
    BY <2>1, <2>12, NothingLeft
  <2>14. ASSUME op[a].archived PROVE vm'.disk
    <3>1. vm' = [vm EXCEPT !.disk = TRUE]
      BY <2>12, <2>14, Zenon
    <3>2. QED
      BY <2>1, <3>1 DEF Holds, Scalars
  <2>15. QED
    BY <2>13, <2>14
<1>2. Inductive /\ [Next]_vars => [\A a \in Actor : A(a)]_vars
  BY <1>1
<1> HIDE DEF A
<1>3. Spec => [][\A a \in Actor : A(a)]_vars
  BY <1>2, AlwaysInductive, PTL DEF Spec
<1>4. QED
  BY <1>3 DEF A, FailedSaveRestores

\* The editor turns no project that the guest takes into one that it refuses: what a
\* save has written when it is done is what the editor's own rules accepted.
THEOREM GuestEdits == Spec => GuestTakesEdits
<1> DEFINE A(a) ==
        (op[a].kind = "apply" /\ op[a].phase = "check" /\ op'[a].kind = "none"
            /\ crashes' = crashes /\ GuestAccepts(ProjectRecipe(op[a].before))) =>
            GuestAccepts(ProjectRecipe(files))
<1>1. ASSUME Inductive, NEW a \in Actor PROVE A(a)
  <2> SUFFICES ASSUME op[a].kind = "apply", op[a].phase = "check",
                      GuestAccepts(ProjectRecipe(op[a].before))
               PROVE  GuestAccepts(ProjectRecipe(files))
    OBVIOUS
  <2>1. Holds(a)
    BY <1>1, Holding DEF SavePhases
  <2>2. /\ files = Overlay(op[a].before, op[a].text, DOMAIN op[a].text)
        /\ GuestSafe(op[a].before, op[a].text)
    BY <2>1 DEF Holds, Progress, Plan
  <2>3. QED
    BY <2>2 DEF GuestSafe
<1>2. Inductive /\ [Next]_vars => [\A a \in Actor : A(a)]_vars
  BY <1>1
<1> HIDE DEF A
<1>3. Spec => [][\A a \in Actor : A(a)]_vars
  BY <1>2, AlwaysInductive, PTL DEF Spec
<1>4. QED
  BY <1>3 DEF A, GuestTakesEdits
=====

-------------------------- MODULE JsonParseProofs ---------------------------
(***************************************************************************)
(* The invariants of module JsonParse for all texts and every nesting       *)
(* limit, allocations that fail included: the parser stays in its buffer,   *)
(* each item and each array of characters has one owner at every moment,    *)
(* nothing leaks, a parsed list can be walked both ways, the recursion is   *)
(* bounded, send_event is called for the members of "data", in order, and   *)
(* the tree is the value with which the text begins.                        *)
(***************************************************************************)
EXTENDS JsonParse, SharedLemmas, SequenceTheorems

Types == {"none", "string", "number", "[", "{"} \cup Literals
Cell == [type : Types, next : Nat, prev : Nat, child : Nat, value : {NULL} \cup Numbers,
         valuestring : Nat, string : Nat]
Frame == [opener : {"[", "{"}, item : Nat, head : Nat]
Deletion == [item : Nat \ {NULL}, entered : BOOLEAN]

Parsing == pc \in {"value", "name", "element", "return", "close"}

Cells == /\ allocated \in Nat /\ Live \subseteq 1..allocated /\ items \in [Live -> Cell]
         /\ \A i \in Live : items[i].prev <= allocated /\ items[i].child <= allocated

Arrays == DOMAIN strings \subseteq (1..allocated) \ Live /\ strings \in [DOMAIN strings -> Strings]

(* The offset is on a token of the buffer.                                  *)
Reading == /\ text \in Texts /\ offset \in Nat
           /\ offset < Len(text)
           /\ pc = "close" => offset + 1 < Len(text)

(* The depth counts the levels while the parser goes on.                    *)
Levels == /\ frames \in Seq(Frame) /\ depth \in Nat
          /\ Parsing \/ pc = "start" => depth = Len(frames)
          /\ Len(frames) <= NESTING_LIMIT
          /\ pc \in {"element", "name", "close"} => frames # <<>>
          /\ pc \in {"start", "search", "walk", "done"} => frames = <<>>

Freeing == /\ deleting \in Seq(Deletion)
           /\ pc # "delete" => deleting = <<>>

Handles == /\ current \in 0..allocated /\ root \in 0..allocated
           /\ data \in 0..allocated /\ cursor \in 0..allocated
           /\ pc \in {"start", "done"} => root = NULL
           /\ Parsing \/ pc \in {"search", "walk"} => root # NULL
           /\ pc \in {"search", "walk"} => cursor \in {NULL} \cup Live

Typed == /\ Cells /\ Arrays /\ Reading /\ Levels /\ Freeing /\ Handles
         /\ pc \in {"start", "value", "element", "name", "return", "close", "fail", "search", "walk",
                    "delete", "done"}

(* Addresses grow along every reference, ...                                *)
Forward == \A i \in Live : /\ items[i].next # NULL => i < items[i].next
                           /\ items[i].child # NULL => i < items[i].child

(* ... from a level to its list and to the next level, ...                  *)
Nested == /\ \A k \in DOMAIN frames : /\ frames[k].item \in Live
                                      /\ frames[k].head # NULL => frames[k].item < frames[k].head
                                      /\ k < Len(frames) => frames[k].head # NULL
          /\ \A j, k \in DOMAIN frames : j < k => frames[j].item < frames[k].item

(* ... and from the levels to what is being deleted.                        *)
Apart == \A k \in DOMAIN frames, d \in DOMAIN deleting : frames[k].item < deleting[d].item

Ordered == Forward /\ Nested /\ Apart

(* The item being parsed is the last of its list, below the level's item,   *)
(* and what parse_value and parse_object will set in it is not set yet; nor *)
(* are the children of the items whose lists are being parsed.              *)
Growing ==
    Parsing =>
        /\ current \in Live /\ items[current].next = NULL
        /\ pc \in {"value", "name"} => items[current].child = NULL /\ items[current].valuestring = NULL
        /\ pc = "name" => items[current].string = NULL
        /\ \A k \in DOMAIN frames : /\ items[frames[k].item].child = NULL
                                    /\ items[frames[k].item].next = NULL
        /\ frames # <<>> => /\ pc \in {"value", "name", "return"} => Top.head # NULL
                            /\ Top.head # NULL => Top.item < current

(* What refers to an item, as triples: the kind of reference, which one, and *)
(* the item (compare OwnersOf).                                             *)
NextRefs == {r \in {"next"} \X Nat \X (Nat \ {NULL}) :
               r[2] \in Live /\ items[r[2]].next = r[3]}
ChildRefs == {r \in {"child"} \X Nat \X (Nat \ {NULL}) :
                r[2] \in Live \ Entered /\ items[r[2]].child = r[3]}
LevelRefs == {r \in {"level"} \X Nat \X (Nat \ {NULL}) :
                r[2] \in DOMAIN frames /\ frames[r[2]].head = r[3]}
DeleteRefs == {r \in {"delete"} \X Nat \X (Nat \ {NULL}) :
                 r[2] \in DOMAIN deleting /\ deleting[r[2]].item = r[3]}
RootRefs == {r \in {"root"} \X {0} \X (Nat \ {NULL}) : root = r[3]}

Refs == NextRefs \cup ChildRefs \cup LevelRefs \cup DeleteRefs \cup RootRefs

(* Each of the items is referred to once, and nothing else is.              *)
Owns(refs, owned) == /\ \A r \in refs : r[3] \in owned
                     /\ \A q, r \in refs : q[3] = r[3] => q = r
                     /\ \A i \in owned : \E r \in refs : r[3] = i

Owned == Owns(Refs, Live)

(* The same for the characters, by the items that hold them.                *)
Holds == {h \in Nat \X (Nat \ {NULL}) :
            h[1] \in Live /\ h[2] \in {items[h[1]].valuestring, items[h[1]].string}}

Held == /\ \A h \in Holds : h[2] \in DOMAIN strings
        /\ \A g, h \in Holds : g[2] = h[2] => g = h
        /\ \A a \in DOMAIN strings : \E h \in Holds : h[2] = a

Tree == Typed /\ short \in BOOLEAN /\ Ordered /\ Growing /\ Owned /\ Held

(* Each address has a level, L: siblings are on one level, children on the   *)
(* next; level k - 1 is that of the item whose list the k-th frame parses;   *)
(* and what cJSON_Delete deletes k calls deep is on level k - 1 or deeper.   *)
ItemLevels(L) == \A i \in Live : /\ L[i] <= NESTING_LIMIT
                                 /\ items[i].next # NULL => L[items[i].next] = L[i]
                                 /\ items[i].child # NULL => L[items[i].child] = L[i] + 1
FrameLevels(L) == \A k \in DOMAIN frames : /\ L[frames[k].item] = k - 1
                                           /\ frames[k].head # NULL => L[frames[k].head] = k
CurrentLevel(L) == /\ Parsing /\ (frames = <<>> \/ Top.head # NULL) => L[current] = Len(frames)
                   /\ root # NULL => L[root] = 0
DeletionLevels(L) == \A k \in DOMAIN deleting : k - 1 <= L[deleting[k].item]

Leveled == \E L \in [Nat -> Nat] :
              ItemLevels(L) /\ FrameLevels(L) /\ CurrentLevel(L) /\ DeletionLevels(L)

(* Each address has a parent, P: an item whose list is complete is that of   *)
(* the last item of the list, and the item of the last level that of the    *)
(* item being parsed.                                                       *)
Chained(P) ==
    \A i \in Live :
        /\ items[i].next # NULL => items[items[i].next].prev = i
        /\ items[i].child # NULL => /\ items[items[i].child].prev \in Live
                                   /\ items[items[items[i].child].prev].next = NULL
                                   /\ P[items[items[i].child].prev] = i
Parents(P) ==
    Parsing => /\ frames # <<>> /\ Top.head # NULL => P[current] = Top.item
               /\ \A k \in DOMAIN frames : k # 1 => P[frames[k].item] = frames[k - 1].item

Linked == pc \notin {"fail", "delete", "done"} => \E P \in [Nat -> Nat] : Chained(P) /\ Parents(P)

(* What the parser knows of its place: the first level parses the root's    *)
(* list, the root has no kind of its own before its value is parsed, a name  *)
(* is a name in an object, and nothing has been walked over.                *)
Rooted ==
    /\ pc = "start" => Live = {}
    /\ Parsing => IF frames = <<>> THEN current = root ELSE frames[1].item = root
    /\ pc = "value" /\ frames = <<>> => items[root].type = "none"
    /\ pc = "name" => Top.opener = "{"
    /\ Parsing \/ pc \in {"start", "search"} => members = <<>>

(* Siblings have one parent; the root's list begins with a child of the      *)
(* root; and the root's children have names if the root is an object, but   *)
(* for the one whose name is being parsed, and none if it is an array.      *)
RootKind == IF frames = <<>> THEN items[root].type ELSE frames[1].opener
Siblings(P) == \A i \in Live : items[i].next # NULL => P[items[i].next] = P[i]
FirstChild(P) == /\ frames # <<>> /\ frames[1].head # NULL => P[frames[1].head] = root
                 /\ root # NULL /\ items[root].child # NULL => P[items[root].child] = root
NamedAsKind(P) ==
    \A i \in Live : P[i] = root => /\ RootKind \in DOMAIN Closer
                                   /\ Named(i) <=> RootKind = "{" /\ ~(pc = "name" /\ i = current)

(* The search has passed the items before the cursor, a child of the root,   *)
(* and none of them is named "data" (compare FirstData).                    *)
Passed(d, i) == \E before \in SUBSET Live :
                   /\ i \in before \cup {d}
                   /\ \A j \in before : ~NamedData(j) /\ items[j].next \in before \cup {d}
Seeking(P) == pc = "search" => /\ Passed(cursor, Childs(root))
                               /\ cursor # NULL => P[cursor] = root

Family == pc \notin {"fail", "delete", "done"} =>
             \E P \in [Nat -> Nat] : /\ Parents(P) /\ Siblings(P) /\ FirstChild(P)
                                     /\ NamedAsKind(P) /\ Seeking(P)

(* The walk has met s of the list that begins with i, and stands at c.       *)
Met(s, i, c) ==
    \/ s = <<>> /\ c = i
    \/ /\ i # NULL /\ Len(s) > 0 /\ s[1] = i /\ items[s[Len(s)]].next = c
       /\ \A k \in 1..(Len(s) - 1) : items[s[k]].next = s[k + 1]
Walking ==
    pc = "walk" =>
        /\ members \in Seq(Nat)
        /\ \E d \in Live \cup {NULL} :
              /\ d # NULL => items[root].type = "{"
              /\ items[root].type = "{" => FirstData(d, Childs(root))
              /\ Met(members, IF d = NULL THEN NULL ELSE Childs(d), cursor)

(* Every item began at a token, ...                                         *)
Place == [at : 0..(Len(text) - 1), depth : 0..NESTING_LIMIT]
Placed == \A i \in Live : i \in DOMAIN began /\ began[i] \in Place

(* ... and what the grammar says of the list of each level follows from what *)
(* it says of the list's last element, and what it says of the whole text   *)
(* from that: the parser can only fail where the text is no JSON, ...       *)
ElementOf(k) == IF k = Len(frames) THEN current ELSE frames[k + 1].item
FirstIn(k) == NextToken(text, ValueAt(frames[k].item) + 1)
ListAt(o, k) == Grammar[text].list[o, k, frames[k].opener]

LevelRead(k) ==
    LET p == frames[k].item
    IN  /\ began[p].depth = k - 1 /\ k - 1 < NESTING_LIMIT
        /\ TokenOf(text, ValueAt(p)) = frames[k].opener
        /\ EndOf(p) = NULL => NoJson
ListRead(k) ==
    frames[k].head # NULL =>
        /\ TokenOf(text, FirstIn(k)) # Closer[frames[k].opener]
        /\ began[frames[k].head] = [at |-> FirstIn(k), depth |-> k]
        /\ began[ElementOf(k)].depth = k
        /\ ListAt(began[ElementOf(k)].at, k) = ListAt(FirstIn(k), k)
        /\ pc # "name" \/ k # Len(frames) => (Named(ElementOf(k)) <=> frames[k].opener = "{")

(* ... the offset is where the grammar has it, ...                          *)
AtValue == /\ offset = ValueAt(current) /\ began[current].depth = depth
           /\ EndOf(current) = NULL => NoJson
AtElement ==
    IF Top.head = NULL
    THEN /\ current = Top.item /\ offset + 1 < Len(text)
         /\ NextToken(text, offset + 1) = FirstIn(Len(frames))
         /\ TokenOf(text, FirstIn(Len(frames))) # Closer[Top.opener]
    ELSE EndOf(current) # NULL /\ Behind(current) = offset /\ TokenOf(text, offset) = ","
AtClose ==
    /\ TokenOf(text, offset) = Closer[Top.opener] /\ EndOf(Top.item) = offset + 1
    /\ IF Top.head = NULL THEN current = Top.item /\ FirstIn(Len(frames)) = offset
       ELSE EndOf(current) # NULL /\ Behind(current) = offset
AtReturn == /\ offset # 0
            /\ EndOf(current) = offset \/ (NumberCut /\ EndOf(current) = offset + 1)
AtToken ==
    /\ pc = "value" => AtValue
    /\ pc = "name" => offset = began[current].at
    /\ pc = "return" => AtReturn
    /\ pc = "element" => AtElement
    /\ pc = "close" => AtClose

Lookup == Parsing => AtToken /\ \A k \in DOMAIN frames : LevelRead(k) /\ ListRead(k)

(* ... what has been parsed is as it was written, but for what is not       *)
(* complete: the items of the levels and the one being parsed, ...          *)
Going == Parsing \/ pc \in {"search", "walk"}
OfLevel(i) == \E k \in DOMAIN frames : frames[k].item = i
Partial(i) == Parsing /\ (OfLevel(i) \/ (pc \in {"value", "name"} /\ i = current))
HasChars(i) == items[i].type = "string" => items[i].valuestring # NULL
LastSoFar(i) == i = root \/ (Parsing /\ (OfLevel(i) \/ i = current))

TreeRead ==
    Going =>
        /\ began[root] = [at |-> TextAt, depth |-> 0] /\ ~Named(root)
        /\ \A i \in Live : /\ NameRead(i)
                           /\ ~Partial(i) => ValueRead(i) /\ HasChars(i)
                           /\ items[i].next # NULL \/ ~LastSoFar(i) => NextRead(i)

(* ... and the parser has not failed but on what is no JSON, or behind a     *)
(* number that it cut.                                                      *)
Failed == /\ pc = "fail" \/ (pc = "delete" /\ (frames # <<>> \/ root # NULL))
          /\ ~short
GaveUp == Failed => NoJson \/ NumberCut

-----------------------------------------------------------------------------
(* The buffer. *)

(* buffer_skip_whitespace stops inside the buffer: on the NUL if on nothing  *)
(* before it, and never before the offset it is given unless that was the   *)
(* end of the buffer.                                                       *)
LEMMA SkipInside ==
    ASSUME text \in Texts, NEW o \in 0..Len(text)
    PROVE  /\ Skip(o) \in Nat /\ Skip(o) < Len(text)
           /\ o < Len(text) => o <= Skip(o)
<1> DEFINE n == Len(text)
           Stops == {j \in o..n : Tok(j) \notin Space}
           StopsAt(j) == (\A k \in o..(j - 1) : Tok(k) \in Space) /\ Tok(j) \notin Space
<1>1. n \in Nat \ {0}
  BY TextsAssumption
<1>2. Tok(n) \notin Space
  BY <1>1 DEF Tok, CanAccess, Space
<1>3. n \in Stops
  BY <1>1, <1>2
<1>4. PICK j \in Stops : \A k \in Stops : j <= k
  <2>1. Stops \in SUBSET Nat /\ Stops # {}
    BY <1>1, <1>3
  <2> HIDE DEF Stops
  <2> QED
    BY <2>1, Least
<1>5. j \in o..n /\ StopsAt(j)
  BY <1>1, <1>4
<1> DEFINE stop == CHOOSE m \in o..n : StopsAt(m)
<1>6. stop \in o..n
  <2> HIDE DEF StopsAt
  <2> QED
    BY <1>5, Zenon
<1>7. Skip(o) = StayInside(stop)
  BY Zenon DEF Skip
<1> HIDE DEF stop
<1> QED
  BY <1>1, <1>6, <1>7 DEF StayInside

(* The mark of the byte order is skipped only if more follows.              *)
LEMMA BomInside == ASSUME text \in Texts PROVE SkipBom \in 0..Len(text)
BY TextsAssumption DEF SkipBom, CanAccess

(* What is no NUL is not the last token.                                    *)
LEMMA NotLast ==
    ASSUME text \in Texts, NEW o \in Nat, o < Len(text), Tok(o) # "NUL"
    PROVE  o + 1 < Len(text)
BY TextsAssumption DEF Tok, CanAccess

-----------------------------------------------------------------------------
(* Owners. *)

(* A new item with one reference to it.                                     *)
LEMMA Added ==
    ASSUME NEW refs, NEW owned, Owns(refs, owned), NEW r, r[3] \notin owned
    PROVE  Owns(refs \cup {r}, owned \cup {r[3]})
BY Zenon DEF Owns

(* One reference replaces another to the same item.                         *)
LEMMA Moved ==
    ASSUME NEW refs, NEW owned, Owns(refs, owned), NEW q \in refs, NEW r, r[3] = q[3]
    PROVE  Owns((refs \ {q}) \cup {r}, owned)
BY Zenon DEF Owns

(* An item goes with the reference to it.                                   *)
LEMMA Removed ==
    ASSUME NEW refs, NEW owned, Owns(refs, owned), NEW r \in refs
    PROVE  Owns(refs \ {r}, owned \ {r[3]})
BY Zenon DEF Owns

-----------------------------------------------------------------------------
(* What the references of a state say of its items. *)

(* The elements of the stacks, and the cells of the items.                  *)
LEMMA Elements ==
    ASSUME Typed
    PROVE  /\ Len(frames) \in Nat /\ DOMAIN frames = 1..Len(frames)
           /\ \A k \in DOMAIN frames : k \in Nat /\ frames[k] \in Frame
           /\ Len(deleting) \in Nat /\ DOMAIN deleting = 1..Len(deleting)
           /\ \A k \in DOMAIN deleting : k \in Nat /\ deleting[k] \in Deletion
           /\ \A i \in Live : i \in Nat \ {0} /\ items[i] \in Cell
<1>1. frames \in Seq(Frame) /\ deleting \in Seq(Deletion)
  BY DEF Typed, Levels, Freeing
<1>2. allocated \in Nat /\ Live \subseteq 1..allocated /\ items \in [Live -> Cell]
  BY DEF Typed, Cells
<1> QED
  BY <1>1, <1>2

LEMMA TopFrame ==
    ASSUME Typed, frames # <<>>
    PROVE  Len(frames) \in DOMAIN frames /\ Len(frames) \in Nat \ {0} /\ Top \in Frame
<1>1. frames \in Seq(Frame)
  BY DEF Typed, Levels
<1>2. Len(frames) \in 1..Len(frames) /\ Len(frames) \in Nat \ {0}
  BY <1>1
<1> QED
  BY <1>1, <1>2, Elements DEF Top

(* A pointer that is not null leads to a live item, and only its own kind   *)
(* of pointer leads there.                                                  *)
LEMMA Pointers ==
    ASSUME Typed, Owned
    PROVE  /\ root # NULL => root \in Live
           /\ \A i \in Live : items[i].next # NULL => items[i].next \in Live
           /\ \A i \in Live \ Entered : items[i].child # NULL => items[i].child \in Live
           /\ \A k \in DOMAIN frames : frames[k].head # NULL => frames[k].head \in Live
           /\ \A k \in DOMAIN deleting : deleting[k].item \in Live
           /\ \A j, k \in DOMAIN deleting : deleting[j].item = deleting[k].item => j = k
<1>1. \A r \in Refs : r[3] \in Live
  BY DEF Owned, Owns
<1>2. root # NULL => root \in Live
  <2> SUFFICES ASSUME root # NULL PROVE root \in Live
    OBVIOUS
  <2>1. <<"root", 0, root>> \in Refs
    BY DEF Typed, Handles, Refs, RootRefs, NULL
  <2> QED
    BY <1>1, <2>1
<1>3. ASSUME NEW i \in Live, items[i].next # NULL PROVE items[i].next \in Live
  <2>1. <<"next", i, items[i].next>> \in Refs
    BY <1>3, Elements DEF Refs, NextRefs, Cell
  <2> QED
    BY <1>1, <2>1
<1>4. ASSUME NEW i \in Live \ Entered, items[i].child # NULL PROVE items[i].child \in Live
  <2>1. <<"child", i, items[i].child>> \in Refs
    BY <1>4, Elements DEF Refs, ChildRefs, Cell
  <2> QED
    BY <1>1, <2>1
<1>5. ASSUME NEW k \in DOMAIN frames, frames[k].head # NULL PROVE frames[k].head \in Live
  <2>1. <<"level", k, frames[k].head>> \in Refs
    BY <1>5, Elements, Zenon DEF Refs, LevelRefs, Frame
  <2> QED
    BY <1>1, <2>1
<1>6. ASSUME NEW k \in DOMAIN deleting PROVE <<"delete", k, deleting[k].item>> \in Refs
  BY Elements DEF Refs, DeleteRefs, Deletion
<1>7. ASSUME NEW j \in DOMAIN deleting, NEW k \in DOMAIN deleting,
             deleting[j].item = deleting[k].item
      PROVE  j = k
  <2>1. <<"delete", j, deleting[j].item>> = <<"delete", k, deleting[k].item>>
    BY <1>6, <1>7 DEF Owned, Owns
  <2> QED
    BY <2>1
<1> QED
  BY <1>1, <1>2, <1>3, <1>4, <1>5, <1>6, <1>7

(* Characters an item points to are live.                                   *)
LEMMA CharPointers ==
    ASSUME Typed, Held, NEW i \in Live
    PROVE  /\ items[i].valuestring # NULL => items[i].valuestring \in DOMAIN strings
           /\ items[i].string # NULL => items[i].string \in DOMAIN strings
<1>1. \A a \in {items[i].valuestring, items[i].string} : a # NULL => <<i, a>> \in Holds
  BY DEF Typed, Cells, Holds, Cell
<1> QED
  BY <1>1 DEF Held

(* Everything is in place before the first step.                            *)
LEMMA InitTree == Init => Tree
<1> SUFFICES ASSUME Init PROVE Tree
  OBVIOUS
<1>1. Live = {} /\ DOMAIN strings = {} /\ frames = <<>> /\ deleting = <<>> /\ root = 0
  BY DEF Init, NULL, Live
<1>2. short \in BOOLEAN /\ pc = "start" /\ allocated = 0
  BY Zenon DEF Init
<1>3. Typed
  <2>1. Levels /\ Freeing
    BY <1>1, <1>2, JsonAssumption DEF Init, Levels, Freeing, Parsing
  <2>2. items \in [Live -> Cell] /\ strings \in [DOMAIN strings -> Strings]
    <3>1. \A S : <<>> \in [{} -> S]
      OBVIOUS
    <3>2. items = <<>> /\ strings = <<>>
      BY DEF Init
    <3> QED
      BY <1>1, <3>1, <3>2, Zenon
  <2>3. Reading
    BY <1>2, TextsAssumption DEF Init, Reading
  <2>4. Handles
    <3>1. current = 0 /\ root = 0 /\ data = 0 /\ cursor = 0
      BY DEF Init, NULL
    <3> QED
      BY <1>2, <3>1 DEF Handles, Parsing, NULL
  <2>5. /\ Live \subseteq 1..allocated /\ DOMAIN strings \subseteq (1..allocated) \ Live
        /\ \A i \in Live : items[i].prev <= allocated /\ items[i].child <= allocated
    <3>1. Live = {} /\ DOMAIN strings = {}
      BY <1>1
    <3> HIDE DEF Live
    <3> QED
      BY <3>1
  <2>6. allocated \in Nat
    BY <1>2
  <2> QED
    BY <1>2, <2>1, <2>2, <2>3, <2>4, <2>5, <2>6, Zenon DEF Typed, Cells, Arrays
<1>4. Ordered /\ Growing
  BY <1>1 DEF Init, Ordered, Forward, Nested, Apart, Growing, Parsing
<1>5. Refs = {}
  BY <1>1 DEF Refs, NextRefs, ChildRefs, LevelRefs, DeleteRefs, RootRefs, NULL
<1>6. Holds = {}
  BY <1>1 DEF Holds
<1> QED
  BY <1>1, <1>2, <1>3, <1>4, <1>5, <1>6, Zenon DEF Tree, Owned, Owns, Held

-----------------------------------------------------------------------------
(* The heap. *)

(* create_item gives an empty item.                                         *)
LEMMA NewItem == EmptyItem \in Cell
BY DEF EmptyItem, Cell, Types, NULL

(* What a step may do to the heap: fill in the current item, which changes   *)
(* no link and no other item; ...                                           *)
Filled == /\ Live' = Live /\ items' \in [Live -> Cell]
          /\ \A j \in Live : /\ items'[j].next = items[j].next /\ items'[j].prev = items[j].prev
                             /\ items'[j].child = items[j].child
                             /\ j # current => items'[j] = items[j]

Kept == items' = items /\ strings' = strings /\ allocated' = allocated

FilledIn == /\ Filled /\ strings' = strings /\ allocated' = allocated
            /\ items'[current].valuestring = items[current].valuestring
            /\ items'[current].string = items[current].string

(* ... with characters of its own, which it did not have; ...               *)
CharsAdded ==
    /\ Filled /\ Here \in Strings /\ current \in Live
    /\ strings' = Extend(strings, Fresh, Here) /\ allocated' = Fresh
    /\ \/ /\ items[current].valuestring = NULL /\ items'[current].valuestring = Fresh
          /\ items'[current].string = items[current].string
       \/ /\ items[current].string = NULL /\ items'[current].string = Fresh
          /\ items'[current].valuestring = items[current].valuestring

(* ... add an item, linked to the current one or to none; ...               *)
ItemAdded(linked) ==
    /\ Start \/ Element
    /\ linked => Element /\ Top.head # NULL
    /\ Live' = Live \cup {Fresh} /\ items' \in [Live' -> Cell]
    /\ strings' = strings /\ allocated' = Fresh
    /\ items'[Fresh] = IF linked THEN [EmptyItem EXCEPT !.prev = current] ELSE EmptyItem
    /\ \A i \in Live : i # current \/ ~linked => items'[i] = items[i]
    /\ linked => items'[current] = [items[current] EXCEPT !.next = Fresh]

(* ... complete a list; ...                                                 *)
ListClosed == /\ Close
              /\ Live' = Live /\ items' \in [Live -> Cell]
              /\ strings' = strings /\ allocated' = allocated
              /\ \A i \in Live : items'[i] = Closed(i)

(* ... or free an item with its characters.                                 *)
ItemFreed == /\ DeleteItem
             /\ Live' = Live \ {Item} /\ items' \in [Live' -> Cell]
             /\ \A i \in Live' : items'[i] = items[i]
             /\ strings' = Without(strings, Chars) /\ allocated' = allocated

HeapSteps == Kept \/ FilledIn \/ CharsAdded \/ ItemAdded(FALSE) \/ ItemAdded(TRUE)
             \/ ListClosed \/ ItemFreed

(* A literal and a number fill in the current item.                         *)
LEMMA FillsIn ==
    ASSUME Cells, current \in Live, NEW t \in Types, NEW v \in {NULL} \cup Numbers, Parsed(t, v)
    PROVE  FilledIn
<1>1. items \in [Live -> Cell]
  BY DEF Cells
<1>2. /\ items' = [items EXCEPT ![current].type = t, ![current].value = v]
      /\ strings' = strings /\ allocated' = allocated
  BY Zenon DEF Parsed
<1>3. items' \in [Live -> Cell] /\ Live' = Live
  BY <1>1, <1>2 DEF Cell, Live
<1> QED
  BY <1>1, <1>2, <1>3 DEF FilledIn, Filled, Cell

(* parse_string hangs its characters on the current item.                   *)
LEMMA FillsString ==
    ASSUME Cells, current \in Live, items[current].valuestring = NULL,
           StringValue, ~NoMemory, ~Fail
    PROVE  CharsAdded
<1>1. items \in [Live -> Cell] /\ allocated + 1 \in Nat
  BY DEF Cells
<1>2. /\ items' = [items EXCEPT ![current].type = "string", ![current].valuestring = Fresh]
      /\ strings' = Extend(strings, Fresh, Here) /\ allocated' = Fresh /\ Here \in Strings
  BY Zenon DEF StringValue
<1>3. items' \in [Live -> Cell] /\ Live' = Live
  BY <1>1, <1>2, ZenonT(60) DEF Cell, Live, Types, Fresh
<1> QED
  BY <1>1, <1>2, <1>3 DEF CharsAdded, Filled, Cell

LEMMA FillsName ==
    ASSUME Cells, current \in Live, items[current].string = NULL, Name, ~NoMemory, ~Fail
    PROVE  CharsAdded
<1>1. items \in [Live -> Cell] /\ allocated + 1 \in Nat
  BY DEF Cells
<1>2. /\ items' = [items EXCEPT ![current].type = "string", ![current].string = Fresh]
      /\ strings' = Extend(strings, Fresh, Here) /\ allocated' = Fresh /\ Here \in Strings
  BY Zenon DEF Name
<1>3. items' \in [Live -> Cell] /\ Live' = Live
  BY <1>1, <1>2, ZenonT(60) DEF Cell, Live, Types, Fresh
<1> QED
  BY <1>1, <1>2, <1>3 DEF CharsAdded, Filled, Cell

(* The root is a new item.                                                  *)
LEMMA AddsRoot == ASSUME Cells, Start, ~NoMemory PROVE ItemAdded(FALSE)
<1>1. items \in [Live -> Cell] /\ Fresh \notin Live
  BY DEF Cells, Fresh
<1>2. items' = Extend(items, Fresh, EmptyItem) /\ allocated' = Fresh /\ strings' = strings
  BY Zenon DEF Start
<1>3. /\ items' \in [Live \cup {Fresh} -> Cell] /\ DOMAIN items' = Live \cup {Fresh}
      /\ items'[Fresh] = EmptyItem
      /\ \A i \in Live : i # Fresh => items'[i] = items[i]
  BY <1>1, <1>2, NewItem DEF Extend
<1>4. Live' = Live \cup {Fresh}
  BY <1>3 DEF Live
<1>5. items' \in [Live' -> Cell]
  BY <1>3, <1>4, Zenon
<1>6. \A i \in Live : items'[i] = items[i]
  BY <1>1, <1>3, Zenon
<1> QED
  BY <1>2, <1>3, <1>4, <1>5, <1>6, Zenon DEF ItemAdded

(* So is each element, linked both ways to the one before it.               *)
LEMMA AddsElement ==
    ASSUME Cells, current \in Live, Element, ~NoMemory
    PROVE  ItemAdded(Top.head # NULL)
<1>1. items \in [Live -> Cell] /\ allocated + 1 \in Nat /\ Fresh \notin Live /\ current \in Nat
  BY DEF Cells, Fresh
<1>2. items' = Attached /\ allocated' = Fresh /\ strings' = strings
  BY Zenon DEF Element
<1>3. CASE Top.head = NULL
  <2>1. items' = Extend(items, Fresh, EmptyItem)
    BY <1>2, <1>3 DEF Attached
  <2>2. /\ items' \in [Live \cup {Fresh} -> Cell] /\ DOMAIN items' = Live \cup {Fresh}
        /\ items'[Fresh] = EmptyItem
        /\ \A i \in Live : i # Fresh => items'[i] = items[i]
    BY <1>1, <2>1, NewItem DEF Extend
  <2>3. Live' = Live \cup {Fresh}
    BY <2>2 DEF Live
  <2> QED
    BY <1>1, <1>2, <1>3, <2>2, <2>3 DEF ItemAdded
<1>4. CASE Top.head # NULL
  <2> DEFINE linked == [items EXCEPT ![current].next = Fresh]
             new == [EmptyItem EXCEPT !.prev = current]
  <2>1. items' = Extend(linked, Fresh, new)
    BY <1>2, <1>4 DEF Attached
  <2>2. /\ linked \in [Live -> Cell] /\ linked[current] = [items[current] EXCEPT !.next = Fresh]
        /\ \A i \in Live : i # current => linked[i] = items[i]
    BY <1>1 DEF Cell, Fresh
  <2>3. new \in Cell
    BY <1>1, Zenon DEF Cell, EmptyItem, Types, NULL
  <2> HIDE DEF linked, new
  <2>4. /\ items' \in [Live \cup {Fresh} -> Cell] /\ DOMAIN items' = Live \cup {Fresh}
        /\ items'[Fresh] = new
        /\ \A i \in Live : i # Fresh => items'[i] = linked[i]
    BY <2>1, <2>2, <2>3 DEF Extend
  <2>5. Live' = Live \cup {Fresh}
    BY <2>4 DEF Live
  <2> USE DEF new
  <2> QED
    BY <1>1, <1>2, <1>4, <2>2, <2>4, <2>5 DEF ItemAdded
<1> QED
  BY <1>3, <1>4

(* At the end of a list its head and its item are changed.                  *)
LEMMA ClosesList ==
    ASSUME Typed, current \in Live, frames # <<>>, Close
    PROVE  ListClosed
<1>1. items \in [Live -> Cell] /\ current \in Nat
  BY DEF Typed, Cells
<1>2. Top \in Frame
  BY Elements DEF Top
<1>3. items' = [i \in Live |-> Closed(i)] /\ strings' = strings /\ allocated' = allocated
  BY Zenon DEF Close, Live
<1>4. \A i \in Live : Closed(i) \in Cell
  BY <1>1, <1>2, Zenon DEF Closed, Cell, Frame, Types
<1> HIDE DEF Closed
<1>5. items' \in [Live -> Cell] /\ \A i \in Live : items'[i] = Closed(i)
  BY <1>3, <1>4
<1>6. Live' = Live
  BY <1>5 DEF Live
<1> QED
  BY <1>3, <1>5, <1>6, Zenon DEF ListClosed

(* cJSON_Delete frees one item at a time.                                   *)
LEMMA FreesItem == ASSUME Cells, DeleteItem PROVE ItemFreed
<1>1. items \in [Live -> Cell]
  BY DEF Cells
<1>2. items' = Without(items, {Item}) /\ strings' = Without(strings, Chars) /\ allocated' = allocated
  BY Zenon DEF DeleteItem
<1>3. /\ items' \in [Live \ {Item} -> Cell] /\ DOMAIN items' = Live \ {Item}
      /\ \A i \in Live \ {Item} : items'[i] = items[i]
  BY <1>1, <1>2 DEF Without
<1>4. Live' = Live \ {Item}
  BY <1>3 DEF Live
<1> QED
  BY <1>2, <1>3, <1>4 DEF ItemFreed

(* Every step does one of these things.                                     *)
LEMMA HeapStep == Tree /\ [Next]_vars => HeapSteps
<1> SUFFICES ASSUME Tree, [Next]_vars PROVE HeapSteps
  OBVIOUS
<1>0. Typed /\ Cells /\ Levels /\ Growing
  BY DEF Tree, Typed
<1>1. NoMemory \/ Fail => Kept
  BY Zenon DEF NoMemory, Fail, Kept, heapVars
<1>2. CASE Start
  BY <1>0, <1>1, <1>2, AddsRoot, Zenon DEF HeapSteps
<1>3. CASE Literal
  <2>1. current \in Live /\ Here \in Types /\ NULL \in {NULL} \cup Numbers /\ Parsed(Here, NULL)
    BY <1>0, <1>3, Zenon DEF Growing, Parsing, Literal, Types
  <2> QED
    BY <1>0, <2>1, FillsIn, Zenon DEF HeapSteps
<1>4. CASE parse_number
  <2>1. CASE Here \in Numbers /\ Parsed("number", Here)
    <3>1. current \in Live /\ "number" \in Types /\ Here \in {NULL} \cup Numbers
      BY <1>0, <1>4, <2>1, Zenon DEF Growing, Parsing, parse_number, Types
    <3> QED
      BY <1>0, <2>1, <3>1, FillsIn, Zenon DEF HeapSteps
  <2> QED
    BY <1>1, <1>4, <2>1, Zenon DEF parse_number, HeapSteps
<1>5. CASE StringValue
  <2>1. current \in Live /\ items[current].valuestring = NULL
    BY <1>0, <1>5, Zenon DEF Growing, Parsing, StringValue
  <2> QED
    BY <1>0, <1>1, <1>5, <2>1, FillsString, Zenon DEF HeapSteps
<1>6. CASE NoValue \/ Open \/ Return \/ Unwind \/ SearchOn \/ SearchEnds \/ WalkOn \/ WalkEnds
           \/ DeleteChildren \/ Deleted \/ UNCHANGED vars
  <2>1. Kept
    BY <1>6, Zenon DEF Kept, NoValue, Open, Fail, Return, Unwind, SearchOn, SearchEnds, WalkOn,
       WalkEnds, DeleteChildren, Deleted, vars, heapVars
  <2> QED
    BY <2>1 DEF HeapSteps
<1>7. CASE Element
  <2>1. current \in Live
    BY <1>0, <1>7, Zenon DEF Growing, Parsing, Element
  <2>2. CASE NoMemory
    BY <1>1, <2>2, Zenon DEF HeapSteps
  <2>3. CASE ~NoMemory
    <3>1. ItemAdded(Top.head # NULL)
      BY <1>0, <1>7, <2>1, <2>3, AddsElement, Zenon
    <3>2. (Top.head # NULL) = TRUE \/ (Top.head # NULL) = FALSE
      OBVIOUS
    <3> QED
      BY <3>1, <3>2 DEF HeapSteps
  <2> QED
    BY <2>2, <2>3
<1>8. CASE Name
  <2>1. current \in Live /\ items[current].string = NULL
    BY <1>0, <1>8, Zenon DEF Growing, Parsing, Name
  <2> QED
    BY <1>0, <1>1, <1>8, <2>1, FillsName, Zenon DEF HeapSteps
<1>9. CASE Close
  <2>1. current \in Live /\ frames # <<>>
    BY <1>0, <1>9, Zenon DEF Growing, Parsing, Close, Levels
  <2> QED
    BY <1>0, <1>9, <2>1, ClosesList, Zenon DEF HeapSteps
<1>10. CASE DeleteItem
  BY <1>0, <1>10, FreesItem, Zenon DEF HeapSteps
<1> QED
  BY <1>2, <1>3, <1>4, <1>5, <1>6, <1>7, <1>8, <1>9, <1>10, Zenon DEF Next

(* Addresses are given out once, in order.                                  *)
LEMMA CellsStep == ASSUME Tree, HeapSteps PROVE Cells'
<1>1. /\ allocated \in Nat /\ Live \subseteq 1..allocated /\ items \in [Live -> Cell]
      /\ \A i \in Live : items[i].prev <= allocated /\ items[i].child <= allocated
      /\ current \in 0..allocated /\ Typed /\ Owned
  BY DEF Tree, Typed, Cells, Handles
<1>2. \A i \in Live : items[i] \in Cell
  BY <1>1
<1>3. CASE Kept
  BY <1>1, <1>3 DEF Kept, Cells, Live
<1>4. CASE FilledIn \/ CharsAdded
  <2>1. Filled /\ allocated' \in {allocated, allocated + 1}
    BY <1>4 DEF FilledIn, CharsAdded, Fresh
  <2>2. Live' = Live /\ items' \in [Live -> Cell] /\ \A i \in Live : items'[i].prev = items[i].prev
                                                                /\ items'[i].child = items[i].child
    BY <2>1 DEF Filled
  <2>3. allocated' \in Nat /\ Live' \subseteq 1..allocated'
    BY <1>1, <2>1, <2>2
  <2>4. \A i \in Live' : items'[i].prev <= allocated' /\ items'[i].child <= allocated'
    <3>1. \A i \in Live : /\ items[i].prev \in Nat /\ items[i].prev <= allocated
                         /\ items[i].child \in Nat /\ items[i].child <= allocated
      BY <1>1, <1>2 DEF Cell
    <3> QED
      BY <1>1, <2>1, <2>2, <3>1
  <2> QED
    BY <2>2, <2>3, <2>4, Zenon DEF Cells
<1>5. ASSUME NEW linked \in BOOLEAN, ItemAdded(linked) PROVE Cells'
  <2>1. Live' = Live \cup {allocated + 1} /\ items' \in [Live' -> Cell] /\ allocated' = allocated + 1
    BY <1>5 DEF ItemAdded, Fresh
  <2>2. items'[allocated + 1].prev \in {0, current} /\ items'[allocated + 1].child = 0
    BY <1>5 DEF ItemAdded, Fresh, EmptyItem, NULL
  <2>3. \A i \in Live : items'[i].prev = items[i].prev /\ items'[i].child = items[i].child
    BY <1>2, <1>5 DEF ItemAdded, Cell
  <2>4. allocated' \in Nat /\ Live' \subseteq 1..allocated'
    BY <1>1, <2>1
  <2>5. \A i \in Live' : items'[i].prev <= allocated' /\ items'[i].child <= allocated'
    <3>1. \A i \in Live : /\ items[i].prev \in Nat /\ items[i].prev <= allocated
                         /\ items[i].child \in Nat /\ items[i].child <= allocated
      BY <1>1, <1>2 DEF Cell
    <3> QED
      BY <1>1, <2>1, <2>2, <2>3, <3>1
  <2> QED
    BY <2>1, <2>4, <2>5, Zenon DEF Cells
<1>6. CASE ListClosed
  <2>1. \A i \in Live : /\ Closed(i).prev \in {items[i].prev, current}
                       /\ Closed(i).child \in {items[i].child, Top.head}
    BY <1>2 DEF Closed, Cell
  <2>2. Top.head \in 0..allocated
    <3>1. frames # <<>>
      BY <1>1, <1>6 DEF ListClosed, Close, Typed, Levels
    <3>2. Top.head \in {NULL} \cup Live
      BY <1>1, <3>1, TopFrame, Pointers DEF Top
    <3>3. PICK h : h = Top.head
      OBVIOUS
    <3>4. h = 0 \/ h \in 1..allocated
      BY <1>1, <3>2, <3>3, Zenon DEF NULL
    <3> QED
      BY <1>1, <3>3, <3>4
  <2> QED
    BY <1>1, <1>6, <2>1, <2>2 DEF ListClosed, Cells
<1>7. CASE ItemFreed
  BY <1>1, <1>7 DEF ItemFreed, Cells
<1> QED
  BY <1>3, <1>4, <1>5, <1>6, <1>7, Zenon DEF HeapSteps

LEMMA ArraysStep == ASSUME Typed, HeapSteps PROVE Arrays'
<1>1. /\ allocated \in Nat /\ Live \subseteq 1..allocated
      /\ DOMAIN strings \subseteq (1..allocated) \ Live /\ strings \in [DOMAIN strings -> Strings]
  BY DEF Typed, Cells, Arrays
<1>2. CASE strings' = strings /\ Live' = Live /\ allocated' = allocated
  BY <1>1, <1>2 DEF Arrays
<1>3. CASE CharsAdded
  <2>1. Live' = Live /\ strings' = Extend(strings, Fresh, Here) /\ allocated' = Fresh /\ Here \in Strings
    BY <1>3 DEF CharsAdded, Filled
  <2>2. strings' \in [DOMAIN strings \cup {Fresh} -> Strings]
    <3>1. PICK D : D = DOMAIN strings /\ strings \in [D -> Strings]
      BY <1>1, Zenon
    <3>2. Extend(strings, Fresh, Here) \in [D \cup {Fresh} -> Strings]
      BY <2>1, <3>1 DEF Extend
    <3> QED
      BY <2>1, <3>1, <3>2, Zenon
  <2>3. DOMAIN strings' = DOMAIN strings \cup {Fresh}
    BY <2>2
  <2>4. DOMAIN strings' \subseteq (1..allocated') \ Live'
    BY <1>1, <2>1, <2>3 DEF Fresh
  <2> QED
    BY <2>2, <2>3, <2>4, Zenon DEF Arrays
<1>4. ASSUME NEW linked \in BOOLEAN, ItemAdded(linked) PROVE Arrays'
  <2>1. Live' = Live \cup {Fresh} /\ strings' = strings /\ allocated' = Fresh
    BY <1>4 DEF ItemAdded
  <2> QED
    BY <1>1, <2>1 DEF Arrays, Fresh
<1>5. CASE ItemFreed
  <2>1. Live' = Live \ {Item} /\ strings' = Without(strings, Chars) /\ allocated' = allocated
    BY <1>5 DEF ItemFreed
  <2>2. strings' \in [DOMAIN strings \ Chars -> Strings]
    <3>1. PICK D : D = DOMAIN strings /\ strings \in [D -> Strings]
      BY <1>1, Zenon
    <3>2. Without(strings, Chars) \in [D \ Chars -> Strings]
      BY <3>1 DEF Without
    <3> QED
      BY <2>1, <3>1, <3>2, Zenon
  <2>3. DOMAIN strings' = DOMAIN strings \ Chars
    BY <2>2
  <2>4. DOMAIN strings' \subseteq (1..allocated') \ Live'
    BY <1>1, <2>1, <2>3
  <2> QED
    BY <2>2, <2>3, <2>4, Zenon DEF Arrays
<1> QED
  BY <1>2, <1>3, <1>4, <1>5, Zenon DEF HeapSteps, Kept, FilledIn, Filled, ListClosed, Live

-----------------------------------------------------------------------------
(* The parser stays in the text, ...                                        *)
LEMMA ReadingStep == ASSUME Typed, [Next]_vars PROVE Reading'
<1>1. /\ text \in Texts /\ offset \in Nat /\ offset < Len(text)
      /\ pc = "close" => offset + 1 < Len(text)
  BY DEF Typed, Reading
<1>2. Len(text) \in Nat \ {0} /\ "NUL" \notin Strings \cup Numbers
  <2>1. Len(text) \in Nat \ {0}
    BY <1>1, TextsAssumption
  <2>2. "NUL" \in Others
    BY DEF Others, Space
  <2> QED
    BY <2>1, <2>2, TextsAssumption, Zenon
<1>3. ASSUME NEW o \in 0..Len(text)
      PROVE  /\ Skip(o) \in Nat /\ Skip(o) < Len(text)
             /\ o < Len(text) => o <= Skip(o)
             /\ Tok(Skip(o)) # "NUL" => Skip(o) + 1 < Len(text)
  BY <1>1, <1>3, SkipInside, NotLast
<1>4. Here # "NUL" => offset + 1 < Len(text)
  BY <1>1, NotLast DEF Here
<1>5. offset \in 0..Len(text) /\ offset + 1 \in 0..Len(text)
  BY <1>1, <1>2
<1>6. ASSUME text' = text, offset' = offset, pc' = pc \/ pc' # "close" PROVE Reading'
  BY <1>1, <1>6 DEF Reading
<1>7. ASSUME text' = text, NEW o \in Nat, o < Len(text), offset' = o, pc' # "close" PROVE Reading'
  BY <1>1, <1>7 DEF Reading
<1>8. CASE NoMemory \/ Fail
  <2>1. text' = text /\ offset' = offset /\ pc' = "fail"
    BY <1>8, Zenon DEF NoMemory, Fail, bufferVars
  <2> QED
    BY <1>6, <2>1
<1>9. CASE Start
  <2>1. CASE ~NoMemory
    <3>1. text' = text /\ offset' = Skip(SkipBom) /\ pc' = "value"
      BY <1>9, <2>1, Zenon DEF Start
    <3> QED
      BY <1>1, <1>3, <1>7, <3>1, BomInside
  <2> QED
    BY <1>8, <2>1
<1>10. CASE Literal \/ parse_number \/ StringValue
  <2>1. CASE ~(NoMemory \/ Fail)
    <3>1. text' = text /\ offset' = offset + 1 /\ pc' = "return"
          /\ Here \in Literals \cup Numbers \cup Strings
      BY <1>10, <2>1, Zenon DEF Literal, parse_number, StringValue, Parsed
    <3> QED
      BY <1>2, <1>4, <1>5, <1>7, <3>1 DEF Literals
  <2> QED
    BY <1>8, <2>1
<1>11. CASE NoValue
  BY <1>8, <1>11, Zenon DEF NoValue
<1>12. CASE Open
  <2>1. CASE ~Fail
    <3>1. /\ text' = text /\ Here \in {"[", "{"}
          /\ \/ Tok(Skip(offset + 1)) = Closer[Here] /\ offset' = Skip(offset + 1) /\ pc' = "close"
             \/ offset' = Skip(offset + 1) - 1 /\ pc' = "element"
      BY <1>12, <2>1, Zenon DEF Open, Closer
    <3>2. offset + 1 < Len(text) /\ Closer[Here] # "NUL"
      BY <1>4, <3>1, Zenon DEF Closer
    <3>3. /\ Skip(offset + 1) \in Nat /\ offset + 1 <= Skip(offset + 1)
          /\ Skip(offset + 1) < Len(text)
          /\ Tok(Skip(offset + 1)) # "NUL" => Skip(offset + 1) + 1 < Len(text)
      BY <1>3, <1>5, <3>2
    <3>4. CASE offset' = Skip(offset + 1) - 1 /\ pc' = "element"
      <4>1. PICK o \in Nat : o = Skip(offset + 1)
        BY <3>3, Zenon
      <4>2. offset' = o - 1 /\ offset + 1 <= o /\ o < Len(text)
        BY <3>3, <3>4, <4>1, Zenon
      <4>3. offset' \in Nat /\ offset' < Len(text)
        BY <1>1, <1>2, <4>1, <4>2
      <4> QED
        BY <1>1, <3>1, <3>4, <4>3, Zenon DEF Reading
    <3>5. CASE Tok(Skip(offset + 1)) = Closer[Here] /\ offset' = Skip(offset + 1)
      <4>1. Skip(offset + 1) + 1 < Len(text)
        BY <3>2, <3>3, <3>5, Zenon
      <4> QED
        BY <1>1, <3>1, <3>3, <3>5, <4>1, Zenon DEF Reading
    <3> QED
      BY <3>1, <3>4, <3>5, Zenon
  <2> QED
    BY <1>8, <2>1
<1>13. CASE Element
  <2>1. CASE ~NoMemory
    <3>1. text' = text /\ offset' = Skip(offset + 1) /\ pc' # "close"
      BY <1>13, <2>1 DEF Element
    <3> QED
      BY <1>3, <1>5, <1>7, <3>1
  <2> QED
    BY <1>8, <2>1
<1>14. CASE Name
  <2>1. CASE ~(NoMemory \/ Fail)
    <3>1. text' = text /\ pc' # "close"
          /\ offset' \in {Skip(Skip(offset + 1) + 1), Skip(offset + 1)}
      BY <1>14, <2>1 DEF Name
    <3>2. Skip(offset + 1) \in Nat /\ Skip(offset + 1) < Len(text)
      BY <1>3, <1>5
    <3>3. Skip(offset + 1) + 1 \in 0..Len(text)
      BY <1>2, <3>2
    <3>4. Skip(Skip(offset + 1) + 1) \in Nat /\ Skip(Skip(offset + 1) + 1) < Len(text)
      BY <1>3, <3>3
    <3> QED
      BY <1>7, <3>1, <3>2, <3>4
  <2> QED
    BY <1>8, <2>1
<1>15. CASE Return
  <2>1. CASE frames = <<>>
    <3>1. text' = text /\ offset' = offset /\ pc' = "search"
      BY <1>15, <2>1, Zenon DEF Return
    <3> QED
      BY <1>6, <3>1
  <2>2. CASE frames # <<>>
    <3>1. text' = text /\ offset' = Skip(offset)
          /\ (pc' = "close" => Tok(Skip(offset)) = Closer[Top.opener])
      BY <1>15, <2>2, Zenon DEF Return
    <3>2. Closer[Top.opener] # "NUL"
      BY <2>2, TopFrame, Zenon DEF Closer, Frame
    <3> QED
      BY <1>1, <1>3, <1>5, <3>1, <3>2 DEF Reading
  <2> QED
    BY <2>1, <2>2
<1>16. CASE Close
  <2>1. text' = text /\ offset' = offset + 1 /\ pc' = "return" /\ pc = "close"
    BY <1>16, Zenon DEF Close
  <2> QED
    BY <1>1, <1>5, <1>7, <2>1
<1>17. CASE Unwind \/ SearchOn \/ SearchEnds \/ WalkOn \/ WalkEnds \/ DeleteChildren \/ DeleteItem
            \/ Deleted \/ UNCHANGED vars
  <2>1. text' = text /\ offset' = offset /\ (pc' = pc \/ pc' # "close")
    BY <1>17 DEF Unwind, SearchOn, SearchEnds, WalkOn, WalkEnds, DeleteChildren, DeleteItem, Deleted,
       vars, bufferVars
  <2> QED
    BY <1>6, <2>1
<1> QED
  BY <1>9, <1>10, <1>11, <1>12, <1>13, <1>14, <1>15, <1>16, <1>17, Zenon DEF Next

(* The level above is left as it was.                                       *)
LEMMA Popped ==
    ASSUME Typed, frames # <<>>
    PROVE  /\ Pop \in Seq(Frame) /\ Len(Pop) = Len(frames) - 1 /\ DOMAIN Pop = 1..(Len(frames) - 1)
           /\ \A k \in 1..(Len(frames) - 1) : Pop[k] = frames[k]
<1>1. frames \in Seq(Frame)
  BY DEF Typed, Levels
<1>2. PICK n \in Nat \ {0} : n = Len(frames)
  BY <1>1
<1>3. \A i \in 1..(n - 1) : frames[i] \in Frame
  BY <1>1, <1>2
<1>4. /\ SubSeq(frames, 1, n - 1) \in Seq(Frame)
      /\ Len(SubSeq(frames, 1, n - 1)) = IF 1 <= n - 1 THEN (n - 1) - 1 + 1 ELSE 0
      /\ \A i \in 1..((n - 1) - 1 + 1) : SubSeq(frames, 1, n - 1)[i] = frames[1 + i - 1]
  BY <1>2, <1>3, SubSeqProperties
<1>5. Pop = SubSeq(frames, 1, n - 1)
  BY <1>2, Zenon DEF Pop
<1>6. Pop \in Seq(Frame) /\ Len(Pop) = n - 1 /\ \A i \in 1..(n - 1) : Pop[i] = frames[i]
  BY <1>4, <1>5
<1>7. DOMAIN Pop = 1..(n - 1)
  BY <1>6
<1> QED
  BY <1>2, <1>6, <1>7, Zenon

(* The first level is the last to go.                                       *)
LEMMA FirstStays ==
    ASSUME Typed, frames # <<>>
    PROVE  IF Pop = <<>> THEN Len(frames) = 1 ELSE Pop[1] = frames[1]
<1>1. PICK n \in Nat \ {0} : n = Len(frames)
  BY TopFrame
<1>2. Pop \in Seq(Frame) /\ Len(Pop) = n - 1 /\ \A k \in 1..(n - 1) : Pop[k] = frames[k]
  BY <1>1, Popped
<1>3. ASSUME Pop = <<>> PROVE n = 1
  <2>1. Len(<<>>) = 0
    OBVIOUS
  <2>2. n - 1 = 0
    BY <1>2, <1>3, <2>1, Zenon
  <2> QED
    BY <2>2
<1>4. ASSUME Pop # <<>> PROVE Pop[1] = frames[1]
  <2>1. PICK s \in Seq(Frame) : s = Pop
    BY <1>2
  <2>2. Len(s) # 0 /\ Len(s) = n - 1
    BY <1>2, <1>4, <2>1
  <2>3. 1 \in 1..(n - 1)
    <3>1. n - 1 # 0
      BY <2>2
    <3> QED
      BY <3>1
  <2> QED
    BY <1>2, <2>3, Zenon
<1> QED
  BY <1>1, <1>3, <1>4

(* The first element of a list becomes the head of its level.               *)
HeadSet == [frames EXCEPT ![Len(frames)].head = IF @ = NULL THEN Fresh ELSE @]

LEMMA Headed ==
    ASSUME Typed, frames # <<>>
    PROVE  /\ HeadSet \in Seq(Frame) /\ Len(HeadSet) = Len(frames) /\ DOMAIN HeadSet = DOMAIN frames
           /\ \A k \in DOMAIN frames : /\ HeadSet[k].item = frames[k].item
                                       /\ HeadSet[k].opener = frames[k].opener
                                       /\ k # Len(frames) => HeadSet[k].head = frames[k].head
           /\ HeadSet[Len(frames)].head = IF Top.head = NULL THEN Fresh ELSE Top.head
<1>1. frames \in Seq(Frame) /\ allocated + 1 \in Nat
  BY DEF Typed, Levels, Cells
<1>2. Len(frames) \in DOMAIN frames /\ Top \in Frame /\ DOMAIN frames = 1..Len(frames)
  BY TopFrame, Elements
<1> DEFINE top == [Top EXCEPT !.head = IF @ = NULL THEN Fresh ELSE @]
<1>3. top \in Frame /\ top.item = Top.item /\ top.opener = Top.opener
      /\ top.head = IF Top.head = NULL THEN Fresh ELSE Top.head
  BY <1>1, <1>2, Zenon DEF Frame, Fresh
<1>4. HeadSet = [frames EXCEPT ![Len(frames)] = top]
  BY DEF HeadSet, Top
<1> HIDE DEF top
<1>5. [frames EXCEPT ![Len(frames)] = top] \in Seq(Frame)
  BY <1>1, <1>2, <1>3
<1> QED
  BY <1>1, <1>2, <1>3, <1>4, <1>5 DEF Top

(* ... in its levels, ...                                                   *)
LEMMA LevelsStep == ASSUME Typed, [Next]_vars PROVE Levels'
<1>1. /\ frames \in Seq(Frame) /\ depth \in Nat
      /\ Parsing \/ pc = "start" => depth = Len(frames)
      /\ Len(frames) <= NESTING_LIMIT
      /\ pc \in {"element", "name", "close"} => frames # <<>>
      /\ pc \in {"start", "search", "walk", "done"} => frames = <<>>
  BY DEF Typed, Levels
<1>2. NESTING_LIMIT \in Nat /\ Len(frames) \in Nat
  BY <1>1, JsonAssumption
<1>3. ASSUME frames' = frames, depth' = depth,
             Parsing' \/ pc' = "start" => Parsing \/ pc = "start",
             pc' \in {"element", "name", "close"} => frames # <<>>,
             pc' \in {"start", "search", "walk", "done"} => frames = <<>>
      PROVE  Levels'
  BY <1>1, <1>3 DEF Levels
<1>4. CASE NoMemory \/ Fail
  <2>1. frames' = frames /\ depth' = depth /\ pc' = "fail"
    BY <1>4, Zenon DEF NoMemory, Fail, bufferVars
  <2> QED
    BY <1>3, <2>1 DEF Parsing
<1>5. CASE Start
  <2>1. CASE ~NoMemory
    <3>1. frames' = frames /\ depth' = depth /\ pc' = "value" /\ pc = "start"
      BY <1>5, <2>1, Zenon DEF Start
    <3> QED
      BY <1>3, <3>1 DEF Parsing
  <2> QED
    BY <1>4, <2>1
<1>6. CASE Literal \/ parse_number \/ StringValue
  <2>1. CASE ~(NoMemory \/ Fail)
    <3>1. frames' = frames /\ depth' = depth /\ pc = "value" /\ pc' = "return"
      BY <1>6, <2>1, Zenon DEF Literal, parse_number, StringValue, Parsed
    <3> QED
      BY <1>3, <3>1 DEF Parsing
  <2> QED
    BY <1>4, <2>1
<1>7. CASE NoValue
  BY <1>4, <1>7, Zenon DEF NoValue
<1>8. CASE Open
  <2>1. CASE ~Fail
    <3>1. /\ pc = "value" /\ ~TooDeep /\ depth' = depth + 1
          /\ frames' = Append(frames, [opener |-> Here, item |-> current, head |-> NULL])
          /\ pc' \in {"close", "element"} /\ Here \in DOMAIN Closer
      BY <1>8, <2>1, Zenon DEF Open
    <3>2. PICK f : f = [opener |-> Here, item |-> current, head |-> NULL]
      OBVIOUS
    <3>3. f \in Frame
      <4>1. current \in Nat
        BY DEF Typed, Handles, Cells
      <4>2. Here \in {"[", "{"}
        BY <3>1, Zenon DEF Closer
      <4> QED
        BY <3>2, <4>1, <4>2, Zenon DEF Frame, NULL
    <3>4. frames' = Append(frames, f)
      BY <3>1, <3>2, Zenon
    <3>5. frames' \in Seq(Frame) /\ Len(frames') = Len(frames) + 1 /\ frames' # <<>>
      BY <1>1, <3>3, <3>4
    <3>6. Len(frames) < NESTING_LIMIT
      BY <1>1, <1>2, <3>1 DEF TooDeep, Parsing
    <3>7. depth' \in Nat /\ depth' = Len(frames') /\ Len(frames') <= NESTING_LIMIT
      BY <1>1, <1>2, <3>1, <3>5, <3>6 DEF Parsing
    <3> QED
      BY <3>1, <3>5, <3>7 DEF Levels
  <2> QED
    BY <1>4, <2>1
<1>9. CASE Element
  <2>1. CASE ~NoMemory
    <3>1. pc = "element" /\ pc' \in {"value", "name"} /\ frames' = HeadSet /\ depth' = depth
      BY <1>9, <2>1 DEF Element, HeadSet
    <3>2. HeadSet \in Seq(Frame) /\ Len(HeadSet) = Len(frames) /\ Len(frames) \in Nat \ {0}
      BY <1>1, <3>1, Headed, TopFrame
    <3>3. HeadSet # <<>>
      BY <3>2
    <3> QED
      BY <1>1, <3>1, <3>2, <3>3 DEF Levels, Parsing
  <2> QED
    BY <1>4, <2>1
<1>10. CASE Name
  <2>1. CASE ~(NoMemory \/ Fail)
    <3>1. frames' = frames /\ depth' = depth /\ pc = "name" /\ pc' \in {"value", "fail"}
      BY <1>10, <2>1 DEF Name
    <3> QED
      BY <1>3, <3>1 DEF Parsing
  <2> QED
    BY <1>4, <2>1
<1>11. CASE Return
  <2>1. frames' = frames /\ depth' = depth /\ pc = "return"
        /\ (frames = <<>> => pc' = "search")
        /\ (frames # <<>> => pc' \in {"element", "close", "fail"})
    BY <1>11, Zenon DEF Return
  <2> QED
    BY <1>3, <2>1 DEF Parsing
<1>12. CASE Close
  <2>1. frames' = Pop /\ depth' = depth - 1 /\ pc = "close" /\ pc' = "return"
    BY <1>12 DEF Close, Shallower
  <2>2. Pop \in Seq(Frame) /\ Len(Pop) = Len(frames) - 1 /\ Len(frames) \in Nat \ {0}
    BY <1>1, <2>1, Popped, TopFrame
  <2> QED
    BY <1>1, <1>2, <2>1, <2>2 DEF Levels, Parsing
<1>13. CASE Unwind
  <2>1. depth' = depth /\ pc' \in {"delete", "done", "fail"}
        /\ frames' = (IF frames = <<>> THEN frames ELSE Pop) /\ (pc' = "done" => frames = <<>>)
    BY <1>13 DEF Unwind, bufferVars
  <2>2. CASE frames = <<>>
    BY <1>3, <2>1, <2>2 DEF Parsing
  <2>3. CASE frames # <<>>
    <3>1. Pop \in Seq(Frame) /\ Len(Pop) = Len(frames) - 1
      BY <2>3, Popped
    <3> QED
      BY <1>1, <1>2, <2>1, <2>3, <3>1 DEF Levels, Parsing
  <2> QED
    BY <2>2, <2>3
<1>14. CASE SearchOn \/ SearchEnds \/ WalkOn \/ WalkEnds
  <2>1. frames' = frames /\ depth' = depth /\ pc \in {"search", "walk"}
        /\ pc' \in {"search", "walk", "delete"}
    BY <1>14 DEF SearchOn, SearchEnds, WalkOn, WalkEnds, bufferVars
  <2> QED
    BY <1>1, <1>3, <2>1 DEF Parsing
<1>15. CASE DeleteChildren \/ DeleteItem \/ Deleted
  <2>1. frames' = frames /\ depth' = depth
        /\ pc' \in {"delete", "done", "fail"} /\ (pc' = "done" => frames = <<>>)
    BY <1>15 DEF DeleteChildren, DeleteItem, Deleted, bufferVars
  <2> QED
    BY <1>3, <2>1 DEF Parsing
<1>16. CASE UNCHANGED vars
  <2>1. frames' = frames /\ depth' = depth /\ pc' = pc
    BY <1>16 DEF vars, bufferVars
  <2> QED
    BY <1>1, <1>3, <2>1 DEF Parsing
<1> QED
  BY <1>5, <1>6, <1>7, <1>8, <1>9, <1>10, <1>11, <1>12, <1>13, <1>14, <1>15, <1>16, Zenon DEF Next

(* One list or one root is deleted to begin with.                           *)
LEMMA Begun ==
    ASSUME NEW i \in Nat \ {NULL}, NEW stack, stack = <<[item |-> i, entered |-> FALSE]>>
    PROVE  /\ stack \in Seq(Deletion) /\ Len(stack) = 1 /\ DOMAIN stack = {1}
           /\ stack[1].item = i /\ ~stack[1].entered
<1>1. PICK d : d = [item |-> i, entered |-> FALSE]
  OBVIOUS
<1>2. d \in Deletion /\ d.item = i /\ ~d.entered
  BY <1>1 DEF Deletion
<1>3. stack = <<d>>
  BY <1>1, Zenon
<1>4. /\ Len(stack) = 1
      /\ stack[1] = d
      /\ stack \in Seq(Deletion)
  <2>1. <<d>> \in Seq(Deletion)
    BY <1>2
  <2>2. Len(<<d>>) = 1
    OBVIOUS
  <2>3. <<d>>[1] = d
    OBVIOUS
  <2> QED
    BY <1>3, <2>1, <2>2, <2>3, Zenon
<1>5. DOMAIN stack = {1}
  BY <1>4
<1> QED
  BY <1>2, <1>4, <1>5, Zenon

(* cJSON_Delete goes down to the children of an item ...                    *)
LEMMA Descends ==
    ASSUME Typed, Owned, DeleteChildren
    PROVE  /\ deleting' \in Seq(Deletion) /\ Len(deleting') = Len(deleting) + 1
           /\ Len(deleting) \in DOMAIN deleting /\ ~deleting[Len(deleting)].entered
           /\ DOMAIN deleting' = DOMAIN deleting \cup {Len(deleting) + 1}
           /\ \A k \in DOMAIN deleting : deleting'[k].item = deleting[k].item
           /\ \A k \in DOMAIN deleting : k # Len(deleting) => deleting'[k].entered = deleting[k].entered
           /\ deleting'[Len(deleting)].entered
           /\ deleting'[Len(deleting) + 1].item = items[Item].child
           /\ ~deleting'[Len(deleting) + 1].entered
<1>1. deleting \in Seq(Deletion) /\ deleting # <<>>
  BY DEF Typed, Freeing, DeleteChildren
<1>2. PICK n \in Nat \ {0} : n = Len(deleting) /\ n \in DOMAIN deleting /\ DOMAIN deleting = 1..n
  BY <1>1
<1>3. PICK d \in Deletion : d = deleting[n]
  BY <1>1, <1>2
<1>4. PICK e : e = [d EXCEPT !.entered = TRUE]
  OBVIOUS
<1>5. e \in Deletion /\ e.item = d.item /\ e.entered
  BY <1>3, <1>4 DEF Deletion
<1>6. PICK level : level = [deleting EXCEPT ![n] = e]
  OBVIOUS
<1>7. Level = level
  BY <1>2, <1>3, <1>4, <1>6 DEF Level
<1>8. /\ level \in Seq(Deletion) /\ Len(level) = n /\ level[n] = e
      /\ \A k \in 1..n : k # n => level[k] = deleting[k]
  BY <1>1, <1>2, <1>5, <1>6
<1>9. PICK c : c = [item |-> items[Item].child, entered |-> FALSE]
  OBVIOUS
<1>10. c \in Deletion /\ c.item = items[Item].child /\ ~c.entered
  <2>1. items[Item].child # NULL
    BY Zenon DEF DeleteChildren
  <2>2. items[Item].child \in Nat
    BY <1>2, Pointers, Elements DEF Item, Cell
  <2> QED
    BY <1>9, <2>1, <2>2 DEF Deletion
<1>11. deleting' = Append(level, c)
  BY <1>7, <1>9, Zenon DEF DeleteChildren
<1>12. /\ deleting' \in Seq(Deletion) /\ Len(deleting') = n + 1 /\ DOMAIN deleting' = 1..(n + 1)
       /\ deleting'[n + 1] = c /\ \A k \in 1..n : deleting'[k] = level[k]
  BY <1>8, <1>10, <1>11
<1>13. \A k \in 1..n : k # n => deleting'[k] = deleting[k]
  BY <1>8, <1>12
<1>14. deleting'[n] = e /\ ~deleting[n].entered
  BY <1>2, <1>8, <1>12, Zenon DEF DeleteChildren
<1>15. 1..(n + 1) = (1..n) \cup {n + 1}
  OBVIOUS
<1> QED
  BY <1>2, <1>3, <1>5, <1>10, <1>12, <1>13, <1>14, <1>15, Zenon

(* ... and when it frees the item, on to the next.                          *)
LEMMA Ascends ==
    ASSUME Typed, DeleteItem, NEW next \in Nat, next = items[Item].next
    PROVE  /\ deleting' \in Seq(Deletion)
           /\ Len(deleting) \in DOMAIN deleting
           /\ \A k \in DOMAIN deleting : k # Len(deleting) =>
                  k \in DOMAIN deleting' /\ deleting'[k] = deleting[k]
           /\ next = NULL => Len(deleting') = Len(deleting) - 1
                             /\ DOMAIN deleting' = DOMAIN deleting \ {Len(deleting)}
           /\ next # NULL => /\ Len(deleting') = Len(deleting)
                             /\ DOMAIN deleting' = DOMAIN deleting
                             /\ deleting'[Len(deleting)].item = next
                             /\ ~deleting'[Len(deleting)].entered
<1>1. deleting \in Seq(Deletion) /\ deleting # <<>>
  BY DEF Typed, Freeing, DeleteItem
<1>2. PICK n \in Nat \ {0} : n = Len(deleting) /\ n \in DOMAIN deleting /\ DOMAIN deleting = 1..n
  BY <1>1
<1>3. PICK rest : rest = SubSeq(deleting, 1, n - 1)
  OBVIOUS
<1>4. rest \in Seq(Deletion) /\ Len(rest) = n - 1 /\ \A i \in 1..(n - 1) : rest[i] = deleting[i]
  <2>1. \A i \in 1..(n - 1) : deleting[i] \in Deletion
    BY <1>1, <1>2
  <2>2. /\ SubSeq(deleting, 1, n - 1) \in Seq(Deletion)
        /\ Len(SubSeq(deleting, 1, n - 1)) = IF 1 <= n - 1 THEN (n - 1) - 1 + 1 ELSE 0
        /\ \A i \in 1..((n - 1) - 1 + 1) : SubSeq(deleting, 1, n - 1)[i] = deleting[1 + i - 1]
    BY <1>2, <2>1, SubSeqProperties
  <2> QED
    BY <1>3, <2>2
<1>5. \A k \in 1..n : k # n => k \in 1..(n - 1)
  OBVIOUS
<1>6. CASE next = NULL
  <2>1. deleting' = rest \o <<>>
    BY <1>2, <1>3, <1>6, Zenon DEF DeleteItem
  <2>2. deleting' = rest
    BY <1>4, <2>1
  <2>3. DOMAIN rest = 1..(n - 1) /\ 1..(n - 1) = (1..n) \ {n}
    BY <1>4
  <2> QED
    BY <1>2, <1>4, <1>5, <1>6, <2>2, <2>3, Zenon
<1>7. CASE next # NULL
  <2>1. PICK d : d = [item |-> next, entered |-> FALSE]
    OBVIOUS
  <2>2. d \in Deletion /\ d.item = next /\ ~d.entered
    BY <1>7, <2>1 DEF Deletion
  <2>3. deleting' = rest \o <<d>>
    BY <1>2, <1>3, <1>7, <2>1, Zenon DEF DeleteItem
  <2>4. /\ deleting' \in Seq(Deletion) /\ Len(deleting') = n /\ DOMAIN deleting' = 1..n
        /\ deleting'[n] = d /\ \A k \in 1..(n - 1) : deleting'[k] = rest[k]
    BY <1>4, <2>2, <2>3
  <2> QED
    BY <1>2, <1>4, <1>5, <1>7, <2>2, <2>4, Zenon
<1> QED
  BY <1>6, <1>7

(* ... with its deletions of items, ...                                     *)
LEMMA FreeingStep == ASSUME Tree, [Next]_vars PROVE Freeing'
<1>1. Typed /\ Owned /\ deleting \in Seq(Deletion) /\ (pc # "delete" => deleting = <<>>)
  BY DEF Tree, Typed, Freeing
<1>2. ASSUME deleting' = deleting, pc' = "delete" \/ deleting = <<>> PROVE Freeing'
  BY <1>1, <1>2 DEF Freeing
<1>3. CASE Start \/ Literal \/ parse_number \/ StringValue \/ NoValue \/ Open \/ Element \/ Name
           \/ Return \/ Close \/ SearchOn \/ SearchEnds \/ WalkOn
  <2>1. deleting' = deleting /\ pc # "delete"
    BY <1>3, Zenon DEF Start, Literal, parse_number, StringValue, NoValue, Open, Element, Name, Return, Close,
       SearchOn, SearchEnds, WalkOn, Parsed, NoMemory, Fail
  <2> QED
    BY <1>1, <1>2, <2>1
<1>4. CASE Unwind
  <2>1. ListToDelete \in Nat
    <3>1. root \in Nat
      BY <1>1 DEF Typed, Handles, Cells
    <3>2. frames # <<>> => Top.head \in Nat
      BY <1>1, TopFrame, Zenon DEF Frame
    <3> QED
      BY <3>1, <3>2 DEF ListToDelete
  <2>2. CASE ListToDelete # NULL
    <3>1. pc' = "delete" /\ deleting' = <<[item |-> ListToDelete, entered |-> FALSE]>>
      BY <1>4, <2>2, Zenon DEF Unwind
    <3> QED
      BY <2>1, <2>2, <3>1, Begun, Zenon DEF Freeing
  <2>3. CASE ListToDelete = NULL
    <3>1. deleting' = deleting /\ pc = "fail"
      BY <1>4, <2>3, Zenon DEF Unwind
    <3> QED
      BY <1>1, <1>2, <3>1
  <2> QED
    BY <2>2, <2>3
<1>5. CASE WalkEnds
  <2>1. root \in Nat \ {NULL}
    BY <1>1, <1>5 DEF Typed, Handles, Cells, WalkEnds
  <2>2. pc' = "delete" /\ deleting' = <<[item |-> root, entered |-> FALSE]>>
    BY <1>5, Zenon DEF WalkEnds
  <2> QED
    BY <2>1, <2>2, Begun, Zenon DEF Freeing
<1>6. CASE DeleteChildren
  <2>1. pc' = "delete" /\ deleting' \in Seq(Deletion)
    BY <1>1, <1>6, Descends, Zenon DEF DeleteChildren
  <2> QED
    BY <2>1, Zenon DEF Freeing
<1>7. CASE DeleteItem
  <2>1. items[Item].next \in Nat
    BY <1>1, <1>7, Pointers, Elements DEF DeleteItem, Item, Cell
  <2>2. pc' = "delete" /\ deleting' \in Seq(Deletion)
    BY <1>1, <1>7, <2>1, Ascends, Zenon DEF DeleteItem
  <2> QED
    BY <2>2, Zenon DEF Freeing
<1>8. CASE Deleted
  BY <1>2, <1>8, Zenon DEF Deleted
<1>9. CASE UNCHANGED vars
  BY <1>1, <1>9 DEF vars, Freeing
<1> QED
  BY <1>3, <1>4, <1>5, <1>6, <1>7, <1>8, <1>9, Zenon DEF Next

(* ... with the pointers on_message and the parser keep, ...                *)
LEMMA HandlesStep == ASSUME Tree, HeapSteps, [Next]_vars PROVE Handles'
<1>1. /\ Typed /\ Owned /\ Ordered
      /\ allocated \in Nat /\ Live \subseteq 1..allocated
      /\ current \in 0..allocated /\ root \in 0..allocated
      /\ data \in 0..allocated /\ cursor \in 0..allocated
      /\ pc \in {"start", "done"} => root = NULL
      /\ Parsing \/ pc \in {"search", "walk"} => root # NULL
      /\ pc \in {"search", "walk"} => cursor \in {NULL} \cup Live
      /\ pc # "delete" => deleting = <<>>
  BY DEF Tree, Typed, Handles, Cells, Freeing
<1>2. allocated' = allocated \/ allocated' = allocated + 1
  BY DEF HeapSteps, Kept, FilledIn, CharsAdded, ItemAdded, ListClosed, ItemFreed, Fresh
<1>3. ASSUME current' \in {current, 0} \cup 1..allocated', root' \in {root, NULL} \cup 1..allocated',
             data' \in {data, NULL} \cup 1..allocated', cursor' \in {cursor, NULL} \cup 1..allocated',
             pc' # "start", pc' = "done" => root' = NULL, Parsing' => root' # NULL,
             pc' \notin {"search", "walk"}
      PROVE  Handles'
  BY <1>1, <1>2, <1>3 DEF Handles, NULL
<1>4. CASE NoMemory \/ Fail
  <2>1. current' = current /\ root' = root /\ data' = data /\ cursor' = cursor /\ pc' = "fail"
    BY <1>4, Zenon DEF NoMemory, Fail, useVars
  <2> QED
    BY <1>3, <2>1 DEF Parsing
<1>5. CASE Start \/ Element
  <2>1. CASE ~NoMemory
    <3>1. /\ current' = Fresh /\ allocated' = Fresh /\ (root' = Fresh \/ (root' = root /\ Parsing))
          /\ data' = data /\ cursor' = cursor /\ pc' \in {"value", "name"}
      BY <1>5, <2>1 DEF Start, Element, useVars, Parsing
    <3> QED
      BY <1>1, <1>3, <3>1 DEF Parsing, Fresh, NULL
  <2> QED
    BY <1>4, <2>1
<1>6. CASE Literal \/ parse_number \/ StringValue \/ Name
  <2>1. CASE ~(NoMemory \/ Fail)
    <3>1. current' = current /\ root' = root /\ data' = data /\ cursor' = cursor
          /\ pc' \in {"value", "return", "fail"} /\ pc \in {"value", "name"}
      BY <1>6, <2>1, Zenon DEF Literal, parse_number, StringValue, Name, Parsed, useVars
    <3> QED
      BY <1>1, <1>3, <3>1 DEF Parsing
  <2> QED
    BY <1>4, <2>1
<1>7. CASE NoValue
  BY <1>4, <1>7, Zenon DEF NoValue
<1>8. CASE Open
  <2>1. CASE ~Fail
    <3>1. current' = current /\ root' = root /\ data' = data /\ cursor' = cursor
          /\ pc' \in {"close", "element"} /\ pc = "value"
      BY <1>8, <2>1, Zenon DEF Open, useVars
    <3> QED
      BY <1>1, <1>3, <3>1 DEF Parsing
  <2> QED
    BY <1>4, <2>1
<1>9. ASSUME NEW c \in {NULL} \cup Live, cursor' = c, current' = current, root' = root,
             data' \in {data, NULL} \cup Live, Live' = Live, allocated' = allocated,
             pc' \in {"search", "walk"}, root # NULL
      PROVE  Handles'
  BY <1>1, <1>9 DEF Handles, Parsing, NULL
<1>10. deleting = <<>> => Entered = {}
  BY DEF Entered
<1>11. deleting = <<>> => \A i \in Live : {items[i].next, items[i].child} \subseteq {NULL} \cup Live
  BY <1>1, <1>10, Pointers
<1>12. CASE Return
  <2>1. CASE frames = <<>>
    <3>1. cursor' = items[root].child /\ current' = current /\ root' = root /\ data' = data
          /\ items' = items /\ allocated' = allocated /\ pc' = "search" /\ pc = "return"
      BY <1>12, <2>1, Zenon DEF Return, heapVars
    <3>2. root # NULL /\ deleting = <<>>
      BY <1>1, <3>1 DEF Parsing
    <3>3. items[root].child \in {NULL} \cup Live
      BY <1>1, <1>11, <3>2, Pointers
    <3>4. Live' = Live
      BY <3>1 DEF Live
    <3> QED
      BY <1>9, <3>1, <3>2, <3>3, <3>4
  <2>2. CASE frames # <<>>
    <3>1. current' = current /\ root' = root /\ data' = data /\ cursor' = cursor
          /\ pc' \in {"element", "close", "fail"} /\ pc = "return"
      BY <1>12, <2>2, Zenon DEF Return
    <3> QED
      BY <1>1, <1>3, <3>1 DEF Parsing
  <2> QED
    BY <2>1, <2>2
<1>13. CASE Close
  <2>1. current' = Top.item /\ root' = root /\ data' = data /\ cursor' = cursor
        /\ allocated' = allocated /\ pc' = "return" /\ pc = "close"
    BY <1>13, Zenon DEF Close, useVars
  <2>2. Top.item \in 1..allocated
    <3>1. frames # <<>>
      BY <1>1, <2>1 DEF Typed, Levels
    <3> QED
      BY <1>1, <3>1, TopFrame DEF Ordered, Nested, Top
  <2> QED
    BY <1>1, <1>3, <2>1, <2>2 DEF Parsing
<1>14. CASE Unwind
  <2>1. current' = current /\ root' \in {root, NULL} /\ data' = data /\ cursor' = cursor
        /\ pc' \in {"delete", "done", "fail"} /\ (pc' = "done" => root' = NULL)
    BY <1>14 DEF Unwind
  <2> QED
    BY <1>3, <2>1 DEF Parsing
<1>15. CASE SearchOn \/ SearchEnds \/ WalkOn
  <2>1. /\ pc \in {"search", "walk"} /\ pc' \in {"search", "walk"} /\ current' = current /\ root' = root
        /\ data' \in {data, NULL, cursor} /\ items' = items /\ allocated' = allocated
        /\ \/ cursor # NULL /\ cursor' \in {items[cursor].next, items[cursor].child}
           \/ cursor' = NULL
    BY <1>15 DEF SearchOn, SearchEnds, WalkOn, Following, heapVars
  <2>2. Live' = Live
    BY <2>1 DEF Live
  <2>3. cursor' \in {NULL} \cup Live
    BY <1>1, <1>11, <2>1
  <2> QED
    BY <1>1, <1>9, <2>1, <2>2, <2>3
<1>16. CASE WalkEnds \/ DeleteChildren \/ DeleteItem \/ Deleted
  <2>1. current' = current /\ root' \in {root, NULL} /\ data' \in {data, NULL} /\ cursor' = cursor
        /\ pc' \in {"delete", "done", "fail"} /\ (pc' = "done" => root' = NULL)
    BY <1>16 DEF WalkEnds, DeleteChildren, DeleteItem, Deleted, useVars
  <2> QED
    BY <1>3, <2>1 DEF Parsing
<1>17. CASE UNCHANGED vars
  BY <1>1, <1>17 DEF vars, useVars, heapVars, Handles, Parsing, Live
<1> QED
  BY <1>5, <1>6, <1>7, <1>8, <1>12, <1>13, <1>14, <1>15, <1>16, <1>17, Zenon DEF Next

(* ... and everything has its type.                                         *)
LEMMA TypedStep == Tree /\ [Next]_vars => Typed' /\ (short \in BOOLEAN)'
<1> SUFFICES ASSUME Tree, [Next]_vars PROVE Typed' /\ (short \in BOOLEAN)'
  OBVIOUS
<1>1. Typed /\ HeapSteps
  BY HeapStep DEF Tree
<1>2. pc' \in {"start", "value", "element", "name", "return", "close", "fail", "search", "walk",
               "delete", "done"}
  <2>1. CASE pc' = pc
    BY <1>1, <2>1 DEF Typed
  <2>2. CASE pc' # pc
    BY <2>2, Zenon DEF Next, vars, Start, Literal, parse_number, StringValue, NoValue, Open, Element,
       Name, Return, Close, Unwind, SearchOn, SearchEnds, WalkOn, WalkEnds, DeleteChildren, DeleteItem,
       Deleted, Parsed, NoMemory, Fail
  <2> QED
    BY <2>1, <2>2
<1>3. short' \in {short, TRUE}
  BY Zenon DEF Next, vars, heapVars, Start, Literal, parse_number, StringValue, NoValue, Open, Element,
     Name, Return, Close, Unwind, SearchOn, SearchEnds, WalkOn, WalkEnds, DeleteChildren, DeleteItem,
     Deleted, Parsed, NoMemory, Fail
<1>4. short' \in BOOLEAN
  BY <1>3, Zenon DEF Tree
<1> QED
  BY <1>1, <1>2, <1>4, CellsStep, ArraysStep, ReadingStep, LevelsStep, FreeingStep, HandlesStep, Zenon
     DEF Typed

-----------------------------------------------------------------------------
(* Only cJSON_Delete frees an item.                                         *)
LEMMA LiveStep ==
    ASSUME HeapSteps
    PROVE  /\ ~DeleteItem => Live \subseteq Live'
           /\ Live' \subseteq Live \cup {Fresh}
BY DEF HeapSteps, Kept, FilledIn, CharsAdded, Filled, ItemAdded, ListClosed, ItemFreed, Live

(* The references lead forward, ...                                         *)
LEMMA ForwardStep == ASSUME Tree, HeapSteps PROVE Forward'
<1>1. /\ Typed /\ Nested /\ allocated \in Nat /\ Live \subseteq 1..allocated /\ items \in [Live -> Cell]
      /\ \A i \in Live : /\ items[i].next # NULL => i < items[i].next
                         /\ items[i].child # NULL => i < items[i].child
      /\ current \in 0..allocated
  BY DEF Tree, Typed, Ordered, Forward, Cells, Handles
<1>2. \A i \in Live : items[i] \in Cell
  BY <1>1
<1>3. ASSUME Live' \subseteq Live,
             \A i \in Live' : items'[i].next = items[i].next /\ items'[i].child = items[i].child
      PROVE  Forward'
  BY <1>1, <1>3 DEF Forward
<1>4. CASE Kept
  BY <1>3, <1>4 DEF Kept, Live
<1>5. CASE FilledIn \/ CharsAdded
  <2>1. Filled
    BY <1>5 DEF FilledIn, CharsAdded
  <2> QED
    BY <1>3, <2>1 DEF Filled
<1>6. ASSUME NEW linked \in BOOLEAN, ItemAdded(linked) PROVE Forward'
  <2>1. /\ Live' = Live \cup {Fresh} /\ Fresh = allocated + 1
        /\ items'[Fresh].next = NULL /\ items'[Fresh].child = NULL
    BY <1>6 DEF ItemAdded, Fresh, EmptyItem
  <2>2. ASSUME NEW i \in Live
        PROVE  items'[i].next \in {items[i].next, Fresh} /\ items'[i].child = items[i].child
    BY <1>2, <1>6 DEF ItemAdded, Cell
  <2>3. ASSUME NEW i \in Live'
        PROVE  /\ items'[i].next # NULL => i < items'[i].next
               /\ items'[i].child # NULL => i < items'[i].child
    <3>1. CASE i = Fresh
      BY <2>1, <3>1
    <3>2. CASE i \in Live
      BY <1>1, <2>1, <2>2, <3>2
    <3> QED
      BY <2>1, <3>1, <3>2
  <2> QED
    BY <2>3 DEF Forward
<1>7. CASE ListClosed
  <2>1. Close /\ frames # <<>>
    BY <1>1, <1>7 DEF ListClosed, Close, Typed, Levels
  <2>2. Top.head # NULL => Top.item < Top.head
    BY <1>1, <2>1, TopFrame DEF Nested, Top
  <2>3. ASSUME NEW i \in Live
        PROVE  /\ Closed(i).next = items[i].next
               /\ Closed(i).child = items[i].child \/ (i = Top.item /\ Closed(i).child = Top.head)
    BY <1>2 DEF Closed, Cell
  <2> QED
    BY <1>1, <1>7, <2>2, <2>3 DEF ListClosed, Forward
<1>8. CASE ItemFreed
  BY <1>3, <1>8 DEF ItemFreed
<1> QED
  BY <1>4, <1>5, <1>6, <1>7, <1>8, Zenon DEF HeapSteps

(* ... the levels are nested, ...                                           *)
LEMMA NestedStep == ASSUME Tree, HeapSteps, [Next]_vars PROVE Nested'
<1>1. /\ Typed /\ Growing /\ Nested /\ Apart /\ Live \subseteq 1..allocated /\ allocated \in Nat
      /\ \A k \in DOMAIN frames : /\ frames[k].item \in Live
                                  /\ frames[k].head # NULL => frames[k].item < frames[k].head
                                  /\ k < Len(frames) => frames[k].head # NULL
      /\ \A j, k \in DOMAIN frames : j < k => frames[j].item < frames[k].item
      /\ frames \in Seq(Frame)
  BY DEF Tree, Typed, Ordered, Nested, Cells, Levels
<1>2. \A k \in DOMAIN frames : frames[k].item \in Nat /\ k \in 1..Len(frames)
  BY <1>1, Elements, Zenon DEF Frame
<1>3. ASSUME frames' = frames, \A k \in DOMAIN frames : frames[k].item \in Live' PROVE Nested'
  BY <1>1, <1>3 DEF Nested
<1>4. ~DeleteItem => Live \subseteq Live'
  BY LiveStep
<1>5. ASSUME frames' = frames, ~DeleteItem PROVE Nested'
  BY <1>1, <1>3, <1>4, <1>5
<1>6. ASSUME frames' = Pop, frames # <<>>, ~DeleteItem PROVE Nested'
  <2>1. PICK n \in Nat \ {0} : n = Len(frames) /\ DOMAIN frames = 1..n
    BY <1>1, <1>6
  <2>2. Len(Pop) = n - 1 /\ DOMAIN Pop = 1..(n - 1) /\ \A k \in 1..(n - 1) : Pop[k] = frames[k]
    BY <1>1, <1>6, <2>1, Popped
  <2>3. \A k \in 1..(n - 1) : k \in DOMAIN frames /\ k < n
    BY <2>1
  <2> QED
    BY <1>1, <1>4, <1>6, <2>1, <2>2, <2>3 DEF Nested
<1>7. CASE Start \/ Literal \/ parse_number \/ StringValue \/ NoValue \/ Name \/ Return
           \/ SearchOn \/ SearchEnds \/ WalkOn \/ WalkEnds \/ DeleteChildren \/ Deleted
           \/ UNCHANGED vars
  <2>1. frames' = frames /\ (~DeleteItem \/ items' = items)
    BY <1>7, Zenon DEF Start, Literal, parse_number, StringValue, NoValue, Name, Return, SearchOn, SearchEnds,
       WalkOn, WalkEnds, DeleteChildren, Deleted, Parsed, NoMemory, Fail, vars, DeleteItem, heapVars
  <2> QED
    BY <1>1, <1>3, <1>5, <2>1 DEF Live
<1>8. CASE Open
  <2>1. pc = "value" /\ ~DeleteItem
    BY <1>8, Zenon DEF Open, DeleteItem
  <2>2. CASE Fail
    BY <1>5, <2>1, <2>2 DEF Fail
  <2>3. CASE ~Fail
    <3>1. frames' = Append(frames, [opener |-> Here, item |-> current, head |-> NULL])
      BY <1>8, <2>3, Zenon DEF Open
    <3>2. PICK f : f = [opener |-> Here, item |-> current, head |-> NULL]
      OBVIOUS
    <3>3. f.item = current /\ f.head = NULL /\ frames' = Append(frames, f)
      BY <3>1, <3>2
    <3>4. PICK n \in Nat : n = Len(frames) /\ DOMAIN frames = 1..n
      BY <1>1
    <3>5. /\ Len(frames') = n + 1 /\ DOMAIN frames' = 1..(n + 1) /\ frames'[n + 1] = f
          /\ \A k \in 1..n : frames'[k] = frames[k]
      BY <1>1, <3>3, <3>4
    <3>6. current \in Live /\ (frames # <<>> => Top.head # NULL /\ Top.item < current)
      BY <1>1, <2>1 DEF Growing, Parsing
    <3>7. \A k \in 1..n : frames[k].item < current /\ frames[k].head # NULL
      <4>1. n # 0 => frames # <<>> /\ Top = frames[n]
        BY <3>4 DEF Top
      <4>2. ASSUME NEW k \in 1..n, k # n PROVE frames[k].item < current /\ frames[k].head # NULL
        <5>1. k < n /\ n \in 1..n /\ k \in DOMAIN frames /\ n \in DOMAIN frames
          BY <3>4, <4>2
        <5>2. /\ frames[k].item < frames[n].item /\ frames[k].head # NULL
              /\ frames[n].item < current
          <6>1. frames[k].item < frames[n].item
            BY <1>1, <5>1, Zenon
          <6>2. frames[k].head # NULL
            BY <1>1, <3>4, <5>1, Zenon
          <6>3. frames[n].item < current
            BY <3>6, <4>1, <5>1
          <6> QED
            BY <6>1, <6>2, <6>3
        <5>3. frames[k].item \in Nat /\ frames[n].item \in Nat
          BY <1>2, <5>1, Zenon
        <5>4. current \in Nat
          BY <1>1, <3>6, Elements, Zenon
        <5> QED
          BY <5>2, <5>3, <5>4
      <4>3. n # 0 => frames[n].item < current /\ frames[n].head # NULL
        BY <3>6, <4>1
      <4>4. n \in 1..n => n # 0
        OBVIOUS
      <4> QED
        BY <4>2, <4>3, <4>4, Zenon
    <3>8. \A k \in 1..(n + 1) : (k \in 1..n /\ k # n + 1) \/ (k = n + 1 /\ ~(k < n + 1))
      OBVIOUS
    <3>9. ASSUME NEW k \in 1..(n + 1)
          PROVE  /\ frames'[k].item \in Live'
                 /\ frames'[k].head # NULL => frames'[k].item < frames'[k].head
                 /\ k < Len(frames') => frames'[k].head # NULL
      <4>1. CASE k \in 1..n
        BY <1>1, <1>4, <2>1, <3>4, <3>5, <3>7, <4>1
      <4>2. CASE k = n + 1
        <5>1. frames'[k] = f /\ ~(k < Len(frames'))
          BY <3>5, <4>2
        <5> QED
          BY <1>4, <2>1, <3>3, <3>6, <5>1
      <4> QED
        BY <3>8, <4>1, <4>2
    <3>10. ASSUME NEW j \in 1..(n + 1), NEW k \in 1..(n + 1), j < k
           PROVE  frames'[j].item < frames'[k].item
      <4>1. j \in 1..n
        BY <3>10
      <4>2. CASE k \in 1..n
        BY <1>1, <3>4, <3>5, <3>10, <4>1, <4>2
      <4>3. CASE k = n + 1
        BY <3>3, <3>5, <3>7, <4>1, <4>3
      <4> QED
        BY <3>8, <4>2, <4>3
    <3> QED
      BY <3>5, <3>9, <3>10, Zenon DEF Nested
  <2> QED
    BY <2>2, <2>3
<1>9. CASE Element
  <2>1. pc = "element" /\ ~DeleteItem
    BY <1>9, Zenon DEF Element, DeleteItem
  <2>2. CASE NoMemory
    BY <1>5, <2>1, <2>2 DEF NoMemory
  <2>3. CASE ~NoMemory
    <3>1. frames' = HeadSet /\ frames # <<>>
      BY <1>1, <1>9, <2>1, <2>3 DEF Element, HeadSet, Typed, Levels
    <3>2. /\ Len(HeadSet) = Len(frames) /\ DOMAIN HeadSet = DOMAIN frames
          /\ \A k \in DOMAIN frames : /\ HeadSet[k].item = frames[k].item
                                      /\ k # Len(frames) => HeadSet[k].head = frames[k].head
          /\ HeadSet[Len(frames)].head \in {Top.head, allocated + 1}
      BY <1>1, <3>1, Headed DEF Fresh
    <3>3. Top = frames[Len(frames)]
      BY DEF Top
    <3>4. ASSUME NEW k \in DOMAIN frames PROVE frames[k].item < allocated + 1
      <4>1. frames[k].item \in 1..allocated
        BY <1>1, Zenon
      <4> QED
        BY <1>1, <4>1
    <3>5. /\ \A k \in DOMAIN frames : /\ HeadSet[k].item \in Live'
                                      /\ HeadSet[k].head # NULL => HeadSet[k].item < HeadSet[k].head
                                      /\ k < Len(frames) => HeadSet[k].head # NULL
          /\ \A j, k \in DOMAIN frames : j < k => HeadSet[j].item < HeadSet[k].item
      BY <1>1, <1>2, <1>4, <2>1, <3>2, <3>3, <3>4
    <3> QED
      BY <3>1, <3>2, <3>5, Zenon DEF Nested
  <2> QED
    BY <2>2, <2>3
<1>10. CASE Close
  <2>1. frames' = Pop /\ frames # <<>> /\ ~DeleteItem
    BY <1>1, <1>10 DEF Close, DeleteItem, Typed, Levels
  <2> QED
    BY <1>6, <2>1
<1>11. CASE Unwind
  <2>1. ~DeleteItem /\ (frames' = frames \/ (frames # <<>> /\ frames' = Pop))
    BY <1>11 DEF Unwind, DeleteItem
  <2> QED
    BY <1>5, <1>6, <2>1
<1>12. CASE DeleteItem
  <2>1. frames' = frames /\ deleting # <<>>
    BY <1>12, Zenon DEF DeleteItem
  <2>2. Live' = Live \ {Item}
    <3>1. Cells
      BY <1>1 DEF Typed
    <3> QED
      BY <1>12, <3>1, FreesItem DEF ItemFreed
  <2>3. Len(deleting) \in DOMAIN deleting
    BY <1>1, <2>1 DEF Typed, Freeing
  <2>4. \A k \in DOMAIN frames : frames[k].item < Item
    BY <1>1, <2>3 DEF Apart, Item
  <2> QED
    BY <1>1, <1>2, <1>3, <2>1, <2>2, <2>4
<1> QED
  BY <1>7, <1>8, <1>9, <1>10, <1>11, <1>12, Zenon DEF Next

(* ... and what is being deleted is none of them.                           *)
LEMMA ApartStep == ASSUME Tree, [Next]_vars PROVE Apart'
<1>1. /\ Typed /\ Owned /\ Forward /\ Nested /\ Apart
      /\ pc # "delete" => deleting = <<>>
      /\ pc \in {"search", "walk"} => frames = <<>>
  BY DEF Tree, Typed, Ordered, Freeing, Levels
<1>2. /\ \A k \in DOMAIN frames : frames[k].item \in Nat
      /\ \A d \in DOMAIN deleting : deleting[d].item \in Live
      /\ \A i \in Live : i \in Nat /\ items[i].next \in Nat /\ items[i].child \in Nat
  BY <1>1, Elements, Pointers, Zenon DEF Frame, Cell
<1>3. ASSUME deleting' = <<>> \/ frames' = <<>> PROVE Apart'
  BY <1>3 DEF Apart
<1>4. CASE Start \/ Literal \/ parse_number \/ StringValue \/ NoValue \/ Open \/ Element \/ Name
           \/ Return \/ Close \/ SearchOn \/ SearchEnds \/ WalkOn
  <2>1. deleting' = deleting /\ pc # "delete"
    BY <1>4, Zenon DEF Start, Literal, parse_number, StringValue, NoValue, Open, Element, Name, Return, Close,
       SearchOn, SearchEnds, WalkOn, Parsed, NoMemory, Fail
  <2> QED
    BY <1>1, <1>3, <2>1
<1>5. CASE Unwind
  <2>1. CASE frames = <<>>
    BY <1>3, <1>5, <2>1, Zenon DEF Unwind
  <2>2. CASE ListToDelete = NULL
    BY <1>1, <1>3, <1>5, <2>2 DEF Unwind
  <2>3. CASE frames # <<>> /\ ListToDelete # NULL
    <3>1. frames' = Pop /\ ListToDelete = Top.head
          /\ deleting' = <<[item |-> ListToDelete, entered |-> FALSE]>>
      BY <1>5, <2>3, Zenon DEF Unwind, ListToDelete
    <3>2. PICK n \in Nat \ {0} : n = Len(frames) /\ n \in DOMAIN frames /\ Top = frames[n] /\ Top \in Frame
      BY <1>1, <2>3, TopFrame DEF Top
    <3>3. /\ DOMAIN Pop = 1..(n - 1)
          /\ \A k \in 1..(n - 1) : Pop[k] = frames[k] /\ k \in DOMAIN frames /\ k < n
      BY <1>1, <2>3, <3>2, Popped, Elements
    <3>4. Top.head \in Nat \ {NULL} /\ Top.item < Top.head /\ Top.item \in Nat
      BY <1>1, <2>3, <3>1, <3>2, Zenon DEF Nested, Frame
    <3>5. DOMAIN deleting' = {1} /\ deleting'[1].item = Top.head
      BY <3>1, <3>4, Begun, Zenon
    <3>6. ASSUME NEW k \in 1..(n - 1) PROVE Pop[k].item < Top.head
      <4>1. frames[k].item < frames[n].item /\ frames[k].item \in Nat
        BY <1>1, <1>2, <3>2, <3>3 DEF Nested
      <4>2. Pop[k] = frames[k] /\ frames[n] = Top
        BY <3>2, <3>3, Zenon
      <4>3. frames[k].item < Top.item /\ Top.item < Top.head /\ Top.head \in Nat /\ Top.item \in Nat
        BY <3>4, <4>1, <4>2, Zenon
      <4>4. frames[k].item < Top.head
        BY <4>1, <4>3
      <4> QED
        BY <4>2, <4>4, Zenon
    <3> QED
      BY <3>1, <3>3, <3>5, <3>6 DEF Apart
  <2> QED
    BY <2>1, <2>2, <2>3
<1>6. CASE WalkEnds
  BY <1>1, <1>3, <1>6 DEF WalkEnds
<1>7. CASE DeleteChildren
  <2>1. /\ DOMAIN deleting' = DOMAIN deleting \cup {Len(deleting) + 1}
        /\ \A d \in DOMAIN deleting : deleting'[d].item = deleting[d].item
        /\ deleting'[Len(deleting) + 1].item = items[Item].child
        /\ Len(deleting) \in DOMAIN deleting
    BY <1>1, <1>7, Descends, Zenon
  <2>2. frames' = frames /\ items[Item].child # NULL
    BY <1>7, Zenon DEF DeleteChildren
  <2>3. Item \in Live /\ Item < items[Item].child
    BY <1>1, <1>2, <2>1, <2>2 DEF Forward, Item
  <2>4. ASSUME NEW k \in DOMAIN frames PROVE frames[k].item < items[Item].child
    <3>1. frames[k].item < Item
      BY <1>1, <2>1 DEF Apart, Item
    <3> QED
      BY <1>2, <2>3, <3>1
  <2> QED
    BY <1>1, <2>1, <2>2, <2>4 DEF Apart
<1>8. CASE DeleteItem
  <2>1. frames' = frames /\ deleting # <<>> /\ Typed
    BY <1>1, <1>8, Zenon DEF DeleteItem
  <2>2. Len(deleting) \in DOMAIN deleting
    BY <2>1 DEF Typed, Freeing
  <2>3. Item \in Live /\ (items[Item].next # NULL => Item < items[Item].next)
    BY <1>1, <1>2, <2>2 DEF Forward, Item
  <2>4. /\ \A d \in DOMAIN deleting : d # Len(deleting) =>
              d \in DOMAIN deleting' /\ deleting'[d] = deleting[d]
        /\ items[Item].next = NULL => DOMAIN deleting' = DOMAIN deleting \ {Len(deleting)}
        /\ items[Item].next # NULL => /\ DOMAIN deleting' = DOMAIN deleting
                                      /\ deleting'[Len(deleting)].item = items[Item].next
    BY <1>1, <1>2, <1>8, <2>3, Ascends, Zenon
  <2>5. ASSUME NEW k \in DOMAIN frames, NEW d \in DOMAIN deleting'
        PROVE  frames[k].item < deleting'[d].item
    <3>1. CASE d \in DOMAIN deleting /\ d # Len(deleting)
      BY <1>1, <2>4, <3>1 DEF Apart
    <3>2. CASE ~(d \in DOMAIN deleting /\ d # Len(deleting))
      <4>1. items[Item].next # NULL /\ d = Len(deleting)
        BY <2>4, <3>2, Zenon
      <4>2. frames[k].item < Item
        BY <1>1, <2>2 DEF Apart, Item
      <4> QED
        BY <1>2, <2>3, <2>4, <4>1, <4>2
    <3> QED
      BY <3>1, <3>2
  <2> QED
    BY <2>1, <2>5 DEF Apart
<1>9. CASE Deleted \/ UNCHANGED vars
  <2>1. frames' = frames /\ deleting' = deleting
    BY <1>9, Zenon DEF Deleted, vars
  <2> QED
    BY <1>1, <2>1 DEF Apart
<1> QED
  BY <1>4, <1>5, <1>6, <1>7, <1>8, <1>9, Zenon DEF Next

(* The item being parsed is the last of its list.                           *)
LEMMA GrowingStep == ASSUME Tree, HeapSteps, [Next]_vars PROVE Growing'
<1>1. /\ Typed /\ Nested /\ Owned /\ Live \subseteq 1..allocated /\ allocated \in Nat
      /\ items \in [Live -> Cell]
      /\ pc \in {"element", "name", "close"} => frames # <<>>
      /\ Parsing =>
            /\ current \in Live /\ items[current].next = NULL
            /\ pc \in {"value", "name"} =>
                  items[current].child = NULL /\ items[current].valuestring = NULL
            /\ pc = "name" => items[current].string = NULL
            /\ \A k \in DOMAIN frames : /\ items[frames[k].item].child = NULL
                                        /\ items[frames[k].item].next = NULL
            /\ frames # <<>> => /\ pc \in {"value", "name", "return"} => Top.head # NULL
                                /\ Top.head # NULL => Top.item < current
  BY DEF Tree, Typed, Ordered, Cells, Levels, Growing
<1>2. ASSUME ~Parsing' PROVE Growing'
  BY <1>2 DEF Growing
<1>3. NoMemory \/ Fail => ~Parsing'
  BY DEF NoMemory, Fail, Parsing
<1>4. CASE Start
  <2>1. CASE ~NoMemory
    <3>1. /\ pc' = "value" /\ current' = Fresh /\ frames' = frames /\ frames = <<>>
          /\ items' = Extend(items, Fresh, EmptyItem)
      BY <1>1, <1>4, <2>1, Zenon DEF Start, Typed, Levels
    <3>2. Fresh \in Live' /\ items'[Fresh] = EmptyItem
      BY <3>1 DEF Extend, Live
    <3>3. frames' = <<>> /\ DOMAIN frames' = {}
      BY <3>1
    <3> QED
      BY <3>1, <3>2, <3>3 DEF Growing, EmptyItem
  <2> QED
    BY <1>2, <1>3, <2>1
<1>5. CASE Literal \/ parse_number \/ StringValue \/ Name
  <2>1. CASE ~(NoMemory \/ Fail) /\ Parsing'
    <3>1. /\ current' = current /\ frames' = frames /\ Parsing
          /\ (pc = "value" /\ pc' = "return") \/ (pc = "name" /\ pc' = "value")
      BY <1>5, <2>1, Zenon DEF Literal, parse_number, StringValue, Name, Parsed, Parsing
    <3>2. FilledIn \/ CharsAdded
      <4>1. current \in Live /\ Cells
        BY <1>1, <3>1 DEF Typed
      <4>2. Literal \/ parse_number => FilledIn
        <5>1. Here \in Literals => Here \in Types
          BY Zenon DEF Types
        <5>2. "number" \in Types
          BY DEF Types
        <5> QED
          BY <2>1, <4>1, <5>1, <5>2, FillsIn, Zenon DEF Literal, parse_number
      <4>3. StringValue => CharsAdded
        BY <1>1, <2>1, <3>1, <4>1, FillsString, Zenon DEF StringValue
      <4>4. Name => CharsAdded
        BY <1>1, <2>1, <3>1, <4>1, FillsName, Zenon DEF Name
      <4> QED
        BY <1>5, <4>2, <4>3, <4>4
    <3>3. /\ Live' = Live
          /\ \A j \in Live : items'[j].next = items[j].next /\ items'[j].child = items[j].child
      BY <3>2 DEF FilledIn, CharsAdded, Filled
    <3>4. pc = "name" => items'[current].valuestring = items[current].valuestring
      <4>1. CASE Name
        <5>1. items' = [items EXCEPT ![current].type = "string", ![current].string = Fresh]
          BY <2>1, <4>1, Zenon DEF Name
        <5> QED
          BY <1>1, <3>1, <5>1 DEF Cell
      <4>2. CASE ~Name
        BY <1>5, <4>2 DEF Literal, parse_number, StringValue
      <4> QED
        BY <4>1, <4>2
    <3>5. Top' = Top
      BY <3>1 DEF Top
    <3>6. \A k \in DOMAIN frames : frames[k].item \in Live
      BY <1>1 DEF Nested
    <3> QED
      BY <1>1, <3>1, <3>3, <3>4, <3>5, <3>6 DEF Growing
  <2> QED
    BY <1>2, <1>3, <2>1
<1>6. CASE NoValue
  BY <1>2, <1>3, <1>6, Zenon DEF NoValue
<1>7. CASE Open
  <2>1. CASE ~Fail
    <3>1. /\ frames' = Append(frames, [opener |-> Here, item |-> current, head |-> NULL])
          /\ items' = items /\ current' = current /\ pc' \in {"close", "element"} /\ pc = "value"
      BY <1>7, <2>1, Zenon DEF Open, heapVars
    <3>2. PICK f : f = [opener |-> Here, item |-> current, head |-> NULL]
      OBVIOUS
    <3>3. f.item = current /\ f.head = NULL /\ frames' = Append(frames, f)
      BY <3>1, <3>2
    <3>4. PICK n \in Nat : n = Len(frames) /\ DOMAIN frames = 1..n /\ frames \in Seq(Frame)
      BY <1>1 DEF Typed, Levels
    <3>5. /\ Len(frames') = n + 1 /\ DOMAIN frames' = 1..(n + 1) /\ frames'[n + 1] = f
          /\ \A k \in 1..n : frames'[k] = frames[k]
      BY <3>3, <3>4
    <3>6. Top' = f
      BY <3>5 DEF Top
    <3>7. Parsing /\ Live' = Live
      BY <3>1 DEF Parsing, Live
    <3>8. \A k \in 1..(n + 1) : k \in 1..n \/ k = n + 1
      OBVIOUS
    <3>9. ASSUME NEW k \in DOMAIN frames'
          PROVE  items'[frames'[k].item].child = NULL /\ items'[frames'[k].item].next = NULL
      BY <1>1, <3>1, <3>3, <3>4, <3>5, <3>7, <3>8
    <3> QED
      BY <1>1, <3>1, <3>3, <3>6, <3>7, <3>9 DEF Growing
  <2> QED
    BY <1>2, <1>3, <2>1
<1>8. CASE Element
  <2>1. CASE ~NoMemory
    <3>1. /\ pc = "element" /\ pc' \in {"value", "name"} /\ frames' = HeadSet /\ current' = Fresh
          /\ frames # <<>> /\ Parsing
      BY <1>1, <1>8, <2>1 DEF Element, HeadSet, Parsing
    <3>2. ItemAdded(Top.head # NULL)
      BY <1>1, <1>8, <2>1, <3>1, AddsElement, Zenon DEF Typed
    <3>3. /\ Fresh \in Live' /\ items'[Fresh].next = NULL /\ items'[Fresh].child = NULL
          /\ items'[Fresh].valuestring = NULL /\ items'[Fresh].string = NULL
          /\ \A j \in Live : j # current => items'[j] = items[j]
          /\ Top.head = NULL => items'[current] = items[current]
      <4>1. CASE Top.head = NULL
        <5>1. ItemAdded(FALSE)
          BY <3>2, <4>1
        <5> QED
          BY <1>1, <3>1, <4>1, <5>1 DEF ItemAdded, EmptyItem
      <4>2. CASE Top.head # NULL
        <5>1. ItemAdded(TRUE)
          BY <3>2, <4>2
        <5> QED
          BY <4>2, <5>1 DEF ItemAdded, EmptyItem
      <4> QED
        BY <4>1, <4>2
    <3>4. /\ Len(HeadSet) = Len(frames) /\ DOMAIN HeadSet = DOMAIN frames
          /\ \A k \in DOMAIN frames : HeadSet[k].item = frames[k].item
          /\ HeadSet[Len(frames)].head \in {Top.head, Fresh} \ {NULL}
      BY <1>1, <3>1, Headed DEF Fresh, NULL
    <3>5. PICK n \in DOMAIN frames : n = Len(frames) /\ Top = frames[n]
      BY <1>1, <3>1, TopFrame DEF Top
    <3>6. Top' = HeadSet[n]
      BY <3>1, <3>4, <3>5 DEF Top
    <3>7. ASSUME NEW k \in DOMAIN frames, Top.head # NULL PROVE frames[k].item # current
      <4>1. Top.item < current /\ Top.item \in Nat /\ current \in Nat
        <5>1. Top.item < current /\ current \in 1..allocated
          BY <1>1, <3>1, <3>7, Zenon
        <5>2. Top.item \in Nat
          BY <1>1, <3>1, TopFrame, Zenon DEF Frame
        <5> QED
          BY <1>1, <5>1, <5>2
      <4>2. k = n \/ k < n
        <5>1. DOMAIN frames = 1..n /\ n \in Nat
          BY <1>1, <3>5, Elements
        <5> QED
          BY <5>1
      <4>3. k < n => frames[k].item < Top.item /\ frames[k].item \in Nat
        BY <1>1, <3>5, Elements, Zenon DEF Nested, Frame
      <4> QED
        BY <3>5, <4>1, <4>2, <4>3
    <3>8. ASSUME NEW k \in DOMAIN frames PROVE items'[frames[k].item] = items[frames[k].item]
      <4>1. frames[k].item \in Live
        BY <1>1, Zenon DEF Nested
      <4> QED
        BY <3>3, <3>7, <4>1, Zenon
    <3>9. Top.item < Fresh
      <4>1. Top.item \in 1..allocated
        BY <1>1, <3>5, Zenon DEF Nested
      <4> QED
        BY <1>1, <4>1 DEF Fresh
    <3> QED
      BY <1>1, <3>1, <3>3, <3>4, <3>5, <3>6, <3>8, <3>9 DEF Growing
  <2> QED
    BY <1>2, <1>3, <2>1
<1>9. CASE Return
  <2>1. items' = items /\ frames' = frames /\ current' = current /\ pc = "return"
        /\ pc' \in {"search", "element", "close", "fail"}
    BY <1>9, Zenon DEF Return, heapVars
  <2>2. Parsing /\ Live' = Live /\ Top' = Top
    BY <2>1 DEF Parsing, Live, Top
  <2> QED
    BY <1>1, <2>1, <2>2 DEF Growing
<1>10. CASE Close
  <2>1. /\ pc = "close" /\ pc' = "return" /\ current' = Top.item /\ frames' = Pop
        /\ Parsing /\ frames # <<>>
    BY <1>1, <1>10, Zenon DEF Close, Parsing
  <2>2. PICK n \in Nat \ {0} : n = Len(frames) /\ n \in DOMAIN frames /\ Top = frames[n]
    BY <1>1, <2>1, TopFrame DEF Top
  <2>3. /\ Len(Pop) = n - 1 /\ DOMAIN Pop = 1..(n - 1)
        /\ \A k \in 1..(n - 1) : Pop[k] = frames[k] /\ k \in DOMAIN frames /\ k < n
    BY <1>1, <2>1, <2>2, Popped, Elements
  <2>4. Live' = Live /\ \A i \in Live : items'[i] = Closed(i)
    BY <1>1, <1>10, <2>1, ClosesList DEF ListClosed
  <2>5. /\ \A i \in Live : Closed(i).next = items[i].next
        /\ \A i \in Live : i # Top.item => Closed(i).child = items[i].child
    BY <1>1 DEF Closed, Cell
  <2>6. Top.item \in Live /\ \A k \in 1..(n - 1) : frames[k].item \in Live /\ frames[k].item < Top.item
                                                  /\ frames[k].head # NULL
    BY <1>1, <2>2, <2>3 DEF Nested
  <2>7. Pop # <<>> => n - 1 \in 1..(n - 1) /\ Top' = frames[n - 1]
    <3>1. CASE Pop # <<>>
      <4>1. n - 1 # 0
        <5>1. Pop \in Seq(Frame)
          BY <1>1, <2>1, Popped
        <5> QED
          BY <2>2, <2>3, <3>1, <5>1
      <4>2. n - 1 \in 1..(n - 1)
        BY <2>2, <4>1
      <4> QED
        BY <2>1, <2>3, <4>2 DEF Top
    <3> QED
      BY <3>1
  <2>8. ASSUME NEW k \in 1..(n - 1)
        PROVE  items'[frames[k].item].child = NULL /\ items'[frames[k].item].next = NULL
    <3>1. frames[k].item # Top.item
      BY <1>1, <2>6
    <3> QED
      BY <1>1, <2>1, <2>3, <2>4, <2>5, <2>6, <3>1
  <2>9. items'[Top.item].next = NULL
    BY <1>1, <2>1, <2>2, <2>4, <2>5, <2>6
  <2> QED
    BY <2>1, <2>3, <2>4, <2>6, <2>7, <2>8, <2>9 DEF Growing
<1>11. CASE Unwind \/ SearchOn \/ SearchEnds \/ WalkOn \/ WalkEnds \/ DeleteChildren \/ DeleteItem
            \/ Deleted
  <2>1. ~Parsing'
    BY <1>11 DEF Unwind, SearchOn, SearchEnds, WalkOn, WalkEnds, DeleteChildren, DeleteItem, Deleted,
       Parsing
  <2> QED
    BY <1>2, <2>1
<1>12. CASE UNCHANGED vars
  <2>1. pc' = pc /\ frames' = frames /\ items' = items /\ current' = current
    BY <1>12 DEF vars, heapVars
  <2> QED
    BY <1>1, <2>1 DEF Growing, Parsing, Live, Top
<1> QED
  BY <1>4, <1>5, <1>6, <1>7, <1>8, <1>9, <1>10, <1>11, <1>12, Zenon DEF Next

LEMMA OrderedStep == Tree /\ [Next]_vars => Ordered' /\ Growing'
BY HeapStep, ForwardStep, NestedStep, ApartStep, GrowingStep, Zenon DEF Ordered

-----------------------------------------------------------------------------
(* The kinds of reference exclude each other.                               *)
LEMMA Kinds ==
    /\ \A r \in NextRefs : r[1] = "next"
    /\ \A r \in ChildRefs : r[1] = "child"
    /\ \A r \in LevelRefs : r[1] = "level"
    /\ \A r \in DeleteRefs : r[1] = "delete"
    /\ \A r \in RootRefs : r[1] = "root"
BY DEF NextRefs, ChildRefs, LevelRefs, DeleteRefs, RootRefs

(* What a step leaves alone refers to what it did.                          *)
LEMMA RefsKept ==
    /\ Live' = Live /\ (\A i \in Live : items'[i].next = items[i].next) => NextRefs' = NextRefs
    /\ Live' = Live /\ Entered' = Entered /\ (\A i \in Live : items'[i].child = items[i].child)
          => ChildRefs' = ChildRefs
    /\ DOMAIN frames' = DOMAIN frames /\ (\A k \in DOMAIN frames : frames'[k].head = frames[k].head)
          => LevelRefs' = LevelRefs
    /\ deleting' = deleting => DeleteRefs' = DeleteRefs /\ Entered' = Entered
    /\ root' = root => RootRefs' = RootRefs
BY DEF NextRefs, ChildRefs, LevelRefs, DeleteRefs, RootRefs, Entered

(* The levels without the last.                                             *)
LEMMA LevelsPopped ==
    ASSUME Typed, frames # <<>>, frames' = Pop
    PROVE  /\ Top.head = NULL => LevelRefs' = LevelRefs
           /\ Top.head # NULL => /\ <<"level", Len(frames), Top.head>> \in LevelRefs
                                 /\ LevelRefs' = LevelRefs \ {<<"level", Len(frames), Top.head>>}
<1>1. PICK n \in Nat \ {0} : n = Len(frames) /\ n \in DOMAIN frames /\ Top = frames[n] /\ Top \in Frame
  BY TopFrame DEF Top
<1>2. /\ DOMAIN frames' = 1..(n - 1) /\ DOMAIN frames = 1..n
      /\ \A k \in 1..(n - 1) : frames'[k] = frames[k]
  BY <1>1, Popped, Elements
<1>3. \A k \in 1..n : k \in 1..(n - 1) <=> k # n
  BY <1>1
<1>4. \A k \in 1..(n - 1) : k \in 1..n
  BY <1>1
<1>5. CASE Top.head = NULL
  BY <1>1, <1>2, <1>3, <1>4, <1>5 DEF LevelRefs
<1>6. CASE Top.head # NULL
  <2>1. PICK h \in Nat \ {NULL} : h = Top.head
    BY <1>1, <1>6, Zenon DEF Frame
  <2>2. LevelRefs' = LevelRefs \ {<<"level", n, h>>}
    BY <1>1, <1>2, <1>3, <1>4, <2>1 DEF LevelRefs
  <2>3. <<"level", n, h>> \in LevelRefs
    BY <1>1, <2>1 DEF LevelRefs
  <2> QED
    BY <1>1, <1>6, <2>1, <2>2, <2>3, Zenon
<1> QED
  BY <1>5, <1>6

(* Something is deleted that was referred to before.                        *)
LEMMA DeletionBegun ==
    ASSUME deleting = <<>>, NEW i \in Nat \ {NULL},
           deleting' = <<[item |-> i, entered |-> FALSE]>>
    PROVE  /\ DeleteRefs = {} /\ DeleteRefs' = {<<"delete", 1, i>>}
           /\ Entered = {} /\ Entered' = {}
<1>1. DOMAIN deleting' = {1} /\ deleting'[1].item = i /\ ~deleting'[1].entered
  BY Begun, Zenon
<1>2. DOMAIN deleting = {}
  OBVIOUS
<1> QED
  BY <1>1, <1>2 DEF DeleteRefs, Entered

(* What is neither an item more or less nor a list closed keeps the links.  *)
LEMMA LinksKept ==
    ASSUME HeapSteps, Kept \/ ~(Start \/ Element \/ Close \/ DeleteItem)
    PROVE  /\ Live' = Live
           /\ \A i \in Live : /\ items'[i].next = items[i].next /\ items'[i].prev = items[i].prev
                              /\ items'[i].child = items[i].child
<1>1. CASE Kept
  BY <1>1 DEF Kept, Live
<1>2. CASE FilledIn \/ CharsAdded
  <2>1. Filled
    BY <1>2 DEF FilledIn, CharsAdded
  <2> QED
    BY <2>1 DEF Filled
<1> QED
  BY <1>1, <1>2, Zenon DEF HeapSteps, ItemAdded, ListClosed, ItemFreed

(* Each item keeps its one owner, ...                                       *)
LEMMA OwnedStep == ASSUME Tree, HeapSteps, [Next]_vars PROVE Owned'
<1>1. /\ Typed /\ Owns(Refs, Live) /\ Growing /\ Nested /\ Forward
      /\ allocated \in Nat /\ Live \subseteq 1..allocated /\ Fresh \in Nat \ {NULL} /\ Fresh \notin Live
      /\ pc # "delete" => deleting = <<>>
      /\ pc \in {"element", "name", "close"} => frames # <<>>
      /\ root \in Nat
  BY DEF Tree, Typed, Ordered, Owned, Cells, Levels, Freeing, Handles, Fresh, NULL
<1>2. ASSUME Live' = Live, Refs' = Refs PROVE Owned'
  BY <1>1, <1>2, Zenon DEF Owned
<1>3. ASSUME Live' = Live, NEW q \in Refs, NEW r, r[3] = q[3], Refs' = (Refs \ {q}) \cup {r}
      PROVE  Owned'
  BY <1>1, <1>3, Moved, Zenon DEF Owned
<1>4. ASSUME NEW r, r[3] = Fresh, Live' = Live \cup {Fresh}, Refs' = Refs \cup {r} PROVE Owned'
  <2>1. Owns(Refs \cup {r}, Live \cup {r[3]})
    BY <1>1, <1>4, Added, Zenon
  <2> QED
    BY <1>4, <2>1, Zenon DEF Owned
<1>5. CASE (Kept \/ ~(Start \/ Element)) /\ ~(Close \/ DeleteItem)
  <2>0. /\ Live' = Live
        /\ \A i \in Live : items'[i].next = items[i].next /\ items'[i].child = items[i].child
    BY <1>5, LinksKept
  <2>1. NextRefs' = NextRefs /\ (Entered' = Entered => ChildRefs' = ChildRefs)
    BY <2>0, RefsKept
  <2>2. ASSUME frames' = frames, deleting' = deleting, root' = root PROVE Owned'
    <3>1. Refs' = Refs
      BY <2>1, <2>2, RefsKept, Zenon DEF Refs
    <3> QED
      BY <1>2, <2>0, <3>1
  <2>3. CASE Start \/ Literal \/ parse_number \/ StringValue \/ NoValue \/ Element \/ Name \/ Return
             \/ SearchOn \/ SearchEnds \/ WalkOn \/ Deleted \/ UNCHANGED vars
    <3>1. ~(NoMemory \/ Fail) => ~(Start \/ Element)
      <4>1. Fresh # allocated
        BY <1>1 DEF Fresh
      <4> QED
        BY <1>5, <4>1, Zenon DEF Start, Element, Kept
    <3>2. CASE NoMemory \/ Fail
      BY <2>2, <3>2, Zenon DEF NoMemory, Fail, useVars
    <3>3. CASE ~(NoMemory \/ Fail) /\ ~(Start \/ Element)
      <4>1. frames' = frames /\ deleting' = deleting /\ root' = root
        BY <2>3, <3>3, Zenon DEF Literal, parse_number, StringValue, NoValue, Name, Return,
           SearchOn, SearchEnds, WalkOn, Deleted, Parsed, vars, useVars
      <4> QED
        BY <2>2, <4>1
    <3> QED
      BY <3>1, <3>2, <3>3
  <2>4. CASE Open
    <3>1. CASE Fail
      BY <2>2, <3>1, Zenon DEF Fail, useVars
    <3>2. CASE ~Fail
      <4>1. /\ frames' = Append(frames, [opener |-> Here, item |-> current, head |-> NULL])
            /\ deleting' = deleting /\ root' = root
        BY <2>4, <3>2, Zenon DEF Open, useVars
      <4>2. PICK f : f = [opener |-> Here, item |-> current, head |-> NULL]
        OBVIOUS
      <4>3. f.head = NULL /\ frames' = Append(frames, f)
        BY <4>1, <4>2
      <4>4. PICK n \in Nat : n = Len(frames) /\ DOMAIN frames = 1..n /\ frames \in Seq(Frame)
        BY <1>1 DEF Typed, Levels
      <4>5. /\ DOMAIN frames' = 1..(n + 1) /\ frames'[n + 1] = f
            /\ \A k \in 1..n : frames'[k] = frames[k]
        BY <4>3, <4>4
      <4>6. \A k : k \in 1..(n + 1) <=> k \in 1..n \/ k = n + 1
        OBVIOUS
      <4>7. LevelRefs' = LevelRefs
        BY <4>3, <4>4, <4>5, <4>6 DEF LevelRefs
      <4>8. Refs' = Refs
        BY <2>1, <4>1, <4>7, RefsKept, Zenon DEF Refs
      <4> QED
        BY <1>2, <2>0, <4>8
    <3> QED
      BY <3>1, <3>2
  <2>5. ASSUME pc # "delete", NEW i \in Nat \ {NULL}, deleting' = <<[item |-> i, entered |-> FALSE]>>
        PROVE  /\ DeleteRefs = {} /\ DeleteRefs' = {<<"delete", 1, i>>}
               /\ ChildRefs' = ChildRefs
    BY <1>1, <2>1, <2>5, DeletionBegun, Zenon
  <2>6. CASE Unwind
    <3>1. CASE frames = <<>> /\ root = NULL
      BY <2>2, <2>6, <3>1, Zenon DEF Unwind, ListToDelete
    <3>2. CASE frames = <<>> /\ root # NULL
      <4>1. /\ frames' = frames /\ root' = NULL /\ pc # "delete" /\ root \in Nat \ {NULL}
            /\ deleting' = <<[item |-> root, entered |-> FALSE]>>
        BY <1>1, <2>6, <3>2, Zenon DEF Unwind, ListToDelete
      <4>2. RootRefs' = {} /\ RootRefs = {<<"root", 0, root>>}
        BY <4>1 DEF RootRefs
      <4>3. DeleteRefs = {} /\ DeleteRefs' = {<<"delete", 1, root>>} /\ ChildRefs' = ChildRefs
        BY <2>5, <4>1
      <4>4. LevelRefs' = LevelRefs
        BY <4>1, RefsKept
      <4>5. PICK q : q = <<"root", 0, root>>
        OBVIOUS
      <4>6. PICK r : r = <<"delete", 1, root>>
        OBVIOUS
      <4>7. q[1] = "root" /\ r[3] = q[3]
        BY <4>5, <4>6
      <4>8. Refs' = (Refs \ {q}) \cup {r} /\ q \in Refs
        BY <2>1, <4>2, <4>3, <4>4, <4>5, <4>6, <4>7, Kinds DEF Refs
      <4> QED
        BY <1>3, <2>0, <4>7, <4>8
    <3>3. CASE frames # <<>>
      <4>1. frames' = Pop /\ root' = root /\ pc # "delete" /\ ListToDelete = Top.head
        BY <2>6, <3>3, Zenon DEF Unwind, ListToDelete
      <4>2. RootRefs' = RootRefs
        BY <4>1, RefsKept
      <4>3. CASE Top.head = NULL
        <5>1. deleting' = deleting
          BY <2>6, <4>1, <4>3, Zenon DEF Unwind
        <5>2. LevelRefs' = LevelRefs
          BY <1>1, <3>3, <4>1, <4>3, LevelsPopped
        <5>3. Refs' = Refs
          BY <2>1, <4>2, <5>1, <5>2, RefsKept, Zenon DEF Refs
        <5> QED
          BY <1>2, <2>0, <5>3
      <4>4. CASE Top.head # NULL
        <5>1. deleting' = <<[item |-> Top.head, entered |-> FALSE]>> /\ Top.head \in Nat \ {NULL}
          BY <1>1, <2>6, <3>3, <4>1, <4>4, TopFrame, Zenon DEF Unwind, Frame
        <5>2. DeleteRefs = {} /\ DeleteRefs' = {<<"delete", 1, Top.head>>} /\ ChildRefs' = ChildRefs
          BY <2>5, <4>1, <5>1
        <5>3. PICK q : q = <<"level", Len(frames), Top.head>>
          OBVIOUS
        <5>4. PICK r : r = <<"delete", 1, Top.head>>
          OBVIOUS
        <5>5. q[1] = "level" /\ r[3] = q[3]
          BY <5>3, <5>4
        <5>6. q \in LevelRefs /\ LevelRefs' = LevelRefs \ {q}
          BY <1>1, <3>3, <4>1, <4>4, <5>3, LevelsPopped, Zenon
        <5>7. Refs' = (Refs \ {q}) \cup {r} /\ q \in Refs
          BY <2>1, <4>2, <5>2, <5>4, <5>5, <5>6, Kinds DEF Refs
        <5> QED
          BY <1>3, <2>0, <5>5, <5>7
      <4> QED
        BY <4>3, <4>4
    <3> QED
      BY <3>1, <3>2, <3>3
  <2>7. CASE WalkEnds
    <3>1. /\ frames' = frames /\ root' = NULL /\ pc # "delete" /\ root \in Nat \ {NULL}
          /\ deleting' = <<[item |-> root, entered |-> FALSE]>>
      <4>1. root # NULL
        BY <1>1, <2>7 DEF WalkEnds, Typed, Handles
      <4> QED
        BY <1>1, <2>7, <4>1, Zenon DEF WalkEnds
    <3>2. RootRefs' = {} /\ RootRefs = {<<"root", 0, root>>}
      BY <3>1 DEF RootRefs
    <3>3. DeleteRefs = {} /\ DeleteRefs' = {<<"delete", 1, root>>} /\ ChildRefs' = ChildRefs
      BY <2>5, <3>1
    <3>4. LevelRefs' = LevelRefs
      BY <3>1, RefsKept
    <3>5. PICK q : q = <<"root", 0, root>>
      OBVIOUS
    <3>6. PICK r : r = <<"delete", 1, root>>
      OBVIOUS
    <3>7. q[1] = "root" /\ r[3] = q[3]
      BY <3>5, <3>6
    <3>8. Refs' = (Refs \ {q}) \cup {r} /\ q \in Refs
      BY <2>1, <3>2, <3>3, <3>4, <3>5, <3>6, <3>7, Kinds DEF Refs
    <3> QED
      BY <1>3, <2>0, <3>7, <3>8
  <2>8. CASE DeleteChildren
    <3>1. /\ frames' = frames /\ root' = root /\ items[Item].child # NULL
          /\ Len(deleting) \in DOMAIN deleting /\ ~deleting[Len(deleting)].entered
          /\ DOMAIN deleting' = DOMAIN deleting \cup {Len(deleting) + 1}
          /\ \A k \in DOMAIN deleting : deleting'[k].item = deleting[k].item
          /\ \A k \in DOMAIN deleting : k # Len(deleting) => deleting'[k].entered = deleting[k].entered
          /\ deleting'[Len(deleting)].entered
          /\ deleting'[Len(deleting) + 1].item = items[Item].child
          /\ ~deleting'[Len(deleting) + 1].entered
      BY <1>1, <2>8, Descends, Zenon DEF DeleteChildren, useVars, Owned
    <3>2. PICK n \in Nat \ {0} : n = Len(deleting) /\ DOMAIN deleting = 1..n /\ deleting[n].item = Item
      <4>1. Len(deleting) \in Nat \ {0} /\ DOMAIN deleting = 1..Len(deleting)
        BY <1>1, <3>1, Elements
      <4> QED
        BY <4>1, Zenon DEF Item
    <3>3. Item \in Live /\ Item \in Nat /\ Item \notin Entered
      <4>1. n \in DOMAIN deleting /\ ~deleting[n].entered
        BY <3>1, <3>2, Zenon
      <4>2. /\ \A k, m \in DOMAIN deleting : deleting[k].item = deleting[m].item => k = m
            /\ \A k \in DOMAIN deleting : deleting[k].item \in Live
        BY <1>1, Pointers DEF Owned
      <4>3. Item \notin Entered
        BY <3>2, <4>1, <4>2, Zenon DEF Entered
      <4> QED
        BY <1>1, <3>2, <4>1, <4>2, <4>3, Elements
    <3>4. PICK c \in Nat \ {NULL} : c = items[Item].child
      BY <1>1, <3>1, <3>3, Elements DEF Cell
    <3>5. Entered' = Entered \cup {Item}
      BY <3>1, <3>2 DEF Entered
    <3>6. PICK q : q = <<"child", Item, c>>
      OBVIOUS
    <3>7. PICK r : r = <<"delete", n + 1, c>>
      OBVIOUS
    <3>8. q[1] = "child" /\ r[3] = q[3]
      BY <3>6, <3>7
    <3>9. q \in ChildRefs /\ ChildRefs' = ChildRefs \ {q}
      BY <2>0, <3>3, <3>4, <3>5, <3>6 DEF ChildRefs
    <3>10. DeleteRefs' = DeleteRefs \cup {r}
      BY <3>1, <3>2, <3>4, <3>7 DEF DeleteRefs
    <3>11. LevelRefs' = LevelRefs /\ RootRefs' = RootRefs
      BY <3>1, RefsKept
    <3>12. Refs' = (Refs \ {q}) \cup {r} /\ q \in Refs
      BY <2>1, <3>8, <3>9, <3>10, <3>11, Kinds DEF Refs
    <3> QED
      BY <1>3, <2>0, <3>8, <3>12
  <2> QED
    BY <1>5, <2>3, <2>4, <2>6, <2>7, <2>8, Zenon DEF Next
<1>6. CASE Start /\ ~NoMemory
  <2>1. ItemAdded(FALSE)
    BY <1>1, <1>6, AddsRoot DEF Typed
  <2>2. /\ Live' = Live \cup {Fresh} /\ items'[Fresh].next = NULL /\ items'[Fresh].child = NULL
        /\ \A i \in Live : items'[i] = items[i]
    BY <2>1 DEF ItemAdded, EmptyItem
  <2>3. frames' = frames /\ deleting' = deleting /\ root' = Fresh /\ root = NULL
    BY <1>1, <1>6, Zenon DEF Start, Typed, Handles
  <2>4. LevelRefs' = LevelRefs /\ DeleteRefs' = DeleteRefs /\ Entered' = Entered
    BY <2>3, RefsKept
  <2>5. NextRefs' = NextRefs /\ ChildRefs' = ChildRefs
    BY <1>1, <2>2, <2>4 DEF NextRefs, ChildRefs
  <2>6. PICK r : r = <<"root", 0, Fresh>>
    OBVIOUS
  <2>7. RootRefs = {} /\ RootRefs' = {r}
    BY <1>1, <2>3, <2>6 DEF RootRefs
  <2>8. Refs' = Refs \cup {r}
    BY <2>4, <2>5, <2>7 DEF Refs
  <2>9. r[3] = Fresh
    BY <2>6
  <2> QED
    BY <1>4, <2>2, <2>8, <2>9
<1>7. CASE Element /\ ~NoMemory
  <2>1. /\ current \in Live /\ items[current].next = NULL /\ frames # <<>>
    BY <1>1, <1>7 DEF Element, Growing, Parsing
  <2>2. ItemAdded(Top.head # NULL)
    BY <1>1, <1>7, <2>1, AddsElement DEF Typed
  <2>3. frames' = HeadSet /\ deleting' = deleting /\ root' = root
    BY <1>7, Zenon DEF Element, HeadSet, useVars
  <2>4. DeleteRefs' = DeleteRefs /\ Entered' = Entered /\ RootRefs' = RootRefs
    BY <2>3, RefsKept
  <2>5. PICK n \in Nat \ {0} : n = Len(frames) /\ n \in DOMAIN frames /\ Top = frames[n]
    BY <1>1, <2>1, TopFrame DEF Top
  <2>6. /\ DOMAIN HeadSet = DOMAIN frames
        /\ \A k \in DOMAIN frames : k # n => HeadSet[k].head = frames[k].head
        /\ HeadSet[n].head = IF Top.head = NULL THEN Fresh ELSE Top.head
    BY <1>1, <2>1, <2>5, Headed
  <2>7. CASE Top.head = NULL
    <3>1. ItemAdded(FALSE)
      BY <2>2, <2>7
    <3>2. /\ Live' = Live \cup {Fresh} /\ items'[Fresh].next = NULL /\ items'[Fresh].child = NULL
          /\ \A i \in Live : items'[i] = items[i]
      BY <3>1 DEF ItemAdded, EmptyItem
    <3>3. NextRefs' = NextRefs /\ ChildRefs' = ChildRefs
      BY <1>1, <2>4, <3>2 DEF NextRefs, ChildRefs
    <3>4. PICK r : r = <<"level", n, Fresh>>
      OBVIOUS
    <3>5. LevelRefs' = LevelRefs \cup {r}
      BY <1>1, <2>3, <2>5, <2>6, <2>7, <3>4 DEF LevelRefs
    <3>6. Refs' = Refs \cup {r} /\ r[3] = Fresh
      BY <2>4, <3>3, <3>4, <3>5 DEF Refs
    <3> QED
      BY <1>4, <3>2, <3>6
  <2>8. CASE Top.head # NULL
    <3>1. ItemAdded(TRUE)
      BY <2>2, <2>8
    <3>2. /\ Live' = Live \cup {Fresh} /\ items'[Fresh].next = NULL /\ items'[Fresh].child = NULL
          /\ \A i \in Live : i # current => items'[i] = items[i]
          /\ items'[current] = [items[current] EXCEPT !.next = Fresh]
      BY <3>1 DEF ItemAdded, EmptyItem
    <3>3. items'[current].next = Fresh /\ items'[current].child = items[current].child
      BY <1>1, <2>1, <3>2, Elements DEF Cell
    <3>4. ChildRefs' = ChildRefs
      BY <1>1, <2>4, <3>2, <3>3, ZenonT(60) DEF ChildRefs
    <3>5. PICK r : r = <<"next", current, Fresh>>
      OBVIOUS
    <3>6. current \in Nat /\ current # Fresh
      <4>1. current # Fresh
        BY <1>1, <2>1, Zenon
      <4>2. current \in Nat
        BY <1>1, <2>1, Elements
      <4> QED
        BY <4>1, <4>2
    <3>7. NextRefs' = NextRefs \cup {r}
      <4>1. PICK c, f \in Nat \ {NULL} : c = current /\ f = Fresh
        <5>1. current \in Nat \ {NULL}
          BY <1>1, <2>1, Elements DEF NULL
        <5> QED
          BY <1>1, <5>1, Zenon
      <4>2. /\ Live' = Live \cup {f} /\ items'[f].next = NULL /\ f \notin Live
            /\ items'[c].next = f /\ items[c].next = NULL /\ c \in Live /\ c # f
            /\ \A i \in Live : i # c => items'[i].next = items[i].next
            /\ r = <<"next", c, f>>
        BY <1>1, <2>1, <3>2, <3>3, <3>5, <3>6, <4>1, Zenon
      <4> QED
        BY <4>1, <4>2 DEF NextRefs
    <3>8. LevelRefs' = LevelRefs
      BY <2>3, <2>5, <2>6, <2>8, RefsKept
    <3>9. Refs' = Refs \cup {r} /\ r[3] = Fresh
      BY <2>4, <3>4, <3>5, <3>7, <3>8 DEF Refs
    <3> QED
      BY <1>4, <3>2, <3>9
  <2> QED
    BY <2>7, <2>8
<1>8. CASE Close
  <2>1. /\ current \in Live /\ frames # <<>> /\ frames' = Pop /\ deleting' = deleting /\ root' = root
        /\ deleting = <<>>
    BY <1>1, <1>8, Zenon DEF Close, Growing, Parsing, useVars
  <2>2. Live' = Live /\ \A i \in Live : items'[i] = Closed(i)
    BY <1>1, <1>8, <2>1, ClosesList DEF ListClosed
  <2>3. PICK n \in Nat \ {0} : n = Len(frames) /\ n \in DOMAIN frames /\ Top = frames[n] /\ Top \in Frame
    BY <1>1, <2>1, TopFrame DEF Top
  <2>4. /\ Top.item \in Live /\ Top.item \in Nat /\ items[Top.item].child = NULL
        /\ Top.head \in Nat /\ Parsing
    BY <1>1, <1>8, <2>3, Zenon DEF Nested, Growing, Close, Parsing, Frame
  <2>5. /\ \A i \in Live : Closed(i).next = items[i].next
        /\ \A i \in Live : i # Top.item => Closed(i).child = items[i].child
        /\ Closed(Top.item).child = Top.head
    BY <1>1, <2>4, Elements DEF Closed, Cell
  <2>6. NextRefs' = NextRefs
    BY <2>2, <2>5, RefsKept
  <2>7. DeleteRefs' = DeleteRefs /\ RootRefs' = RootRefs /\ Entered' = Entered
    BY <2>1, RefsKept
  <2>8. Entered = {}
    BY <2>1 DEF Entered
  <2>9. CASE Top.head = NULL
    <3>1. LevelRefs' = LevelRefs
      BY <1>1, <2>1, <2>9, LevelsPopped
    <3>2. ChildRefs' = ChildRefs
      BY <2>2, <2>4, <2>5, <2>7, <2>9, RefsKept
    <3>3. Refs' = Refs
      BY <2>6, <2>7, <3>1, <3>2, Zenon DEF Refs
    <3> QED
      BY <1>2, <2>2, <3>3
  <2>10. CASE Top.head # NULL
    <3>1. PICK q : q = <<"level", Len(frames), Top.head>>
      OBVIOUS
    <3>2. PICK r : r = <<"child", Top.item, Top.head>>
      OBVIOUS
    <3>3. q[1] = "level" /\ r[3] = q[3]
      BY <3>1, <3>2
    <3>4. q \in LevelRefs /\ LevelRefs' = LevelRefs \ {q}
      BY <1>1, <2>1, <2>10, <3>1, LevelsPopped, Zenon
    <3>5. ChildRefs' = ChildRefs \cup {r}
      BY <2>2, <2>4, <2>5, <2>7, <2>8, <2>10, <3>2 DEF ChildRefs
    <3>6. Refs' = (Refs \ {q}) \cup {r} /\ q \in Refs
      BY <2>6, <2>7, <3>3, <3>4, <3>5, Kinds DEF Refs
    <3> QED
      BY <1>3, <2>2, <3>3, <3>6
  <2> QED
    BY <2>9, <2>10
<1>9. CASE DeleteItem
  <2>1. /\ Live' = Live \ {Item} /\ \A i \in Live' : items'[i] = items[i]
        /\ frames' = frames /\ root' = root /\ deleting # <<>>
        /\ (deleting[Len(deleting)].entered \/ items[Item].child = NULL)
    <3>1. ItemFreed
      BY <1>1, <1>9, FreesItem DEF Typed
    <3>2. Live' = Live \ {Item} /\ \A i \in Live' : items'[i] = items[i]
      BY <3>1 DEF ItemFreed
    <3> QED
      BY <1>9, <3>2, Zenon DEF DeleteItem, useVars
  <2>2. PICK n \in Nat \ {0} : n = Len(deleting) /\ n \in DOMAIN deleting /\ deleting[n].item = Item
    <3>1. Len(deleting) \in DOMAIN deleting /\ Len(deleting) \in Nat \ {0}
      BY <1>1, <2>1 DEF Typed, Freeing
    <3> QED
      BY <3>1 DEF Item
  <2>3. Item \in Live /\ Item \in Nat \ {NULL} /\ items[Item].next \in Nat
    BY <1>1, <2>2, Pointers, Elements DEF Owned, Cell, NULL
  <2>4. PICK x \in Nat : x = items[Item].next
    BY <2>3
  <2>5. /\ \A k \in DOMAIN deleting : k # n => k \in DOMAIN deleting' /\ deleting'[k] = deleting[k]
        /\ x = NULL => DOMAIN deleting' = DOMAIN deleting \ {n}
        /\ x # NULL => /\ DOMAIN deleting' = DOMAIN deleting
                       /\ deleting'[n].item = x /\ ~deleting'[n].entered
    BY <1>1, <1>9, <2>2, <2>4, Ascends
  <2>6. /\ \A k, m \in DOMAIN deleting : deleting[k].item = deleting[m].item => k = m
        /\ \A k \in DOMAIN deleting : deleting[k].item \in Live
    BY <1>1, Pointers DEF Owned
  <2>7. Entered' = Entered \ {Item} /\ (Item \in Entered \/ items[Item].child = NULL)
    BY <2>1, <2>2, <2>5, <2>6 DEF Entered
  <2>8. LevelRefs' = LevelRefs /\ RootRefs' = RootRefs
    BY <2>1, RefsKept
  <2>9. ChildRefs' = ChildRefs
    BY <2>1, <2>7 DEF ChildRefs
  <2>10. PICK p : p = <<"delete", n, Item>>
    OBVIOUS
  <2>11. p[1] = "delete" /\ p[3] = Item /\ p \in DeleteRefs
    BY <2>2, <2>3, <2>10 DEF DeleteRefs
  <2>12. CASE x = NULL
    <3>1. NextRefs' = NextRefs
      BY <2>1, <2>4, <2>12 DEF NextRefs
    <3>2. DeleteRefs' = DeleteRefs \ {p}
      BY <2>2, <2>5, <2>10, <2>12 DEF DeleteRefs
    <3>3. Refs' = Refs \ {p} /\ p \in Refs
      BY <2>8, <2>9, <2>11, <3>1, <3>2, Kinds DEF Refs
    <3> QED
      BY <1>1, <2>1, <2>11, <3>3, Removed, Zenon DEF Owned
  <2>13. CASE x # NULL
    <3>1. PICK q : q = <<"next", Item, x>>
      OBVIOUS
    <3>2. PICK r : r = <<"delete", n, x>>
      OBVIOUS
    <3>3. q[1] = "next" /\ r[3] = q[3]
      BY <3>1, <3>2
    <3>4. q \in NextRefs /\ NextRefs' = NextRefs \ {q}
      BY <2>1, <2>3, <2>4, <2>13, <3>1 DEF NextRefs
    <3>5. p # r
      BY <1>1, <2>3, <2>4, <2>10, <2>13, <3>2 DEF Forward
    <3>6. DeleteRefs' = (DeleteRefs \cup {r}) \ {p}
      BY <2>2, <2>4, <2>5, <2>10, <2>13, <3>2, <3>5 DEF DeleteRefs
    <3>7. Refs' = ((Refs \ {q}) \cup {r}) \ {p} /\ q \in Refs /\ p \in (Refs \ {q}) \cup {r}
      BY <2>8, <2>9, <2>11, <3>3, <3>4, <3>5, <3>6, Kinds DEF Refs
    <3>8. Owns((Refs \ {q}) \cup {r}, Live)
      BY <1>1, <3>3, <3>7, Moved, Zenon
    <3>9. Owns(((Refs \ {q}) \cup {r}) \ {p}, Live \ {p[3]})
      BY <3>7, <3>8, Removed, Zenon
    <3> QED
      BY <2>1, <2>11, <3>7, <3>9, Zenon DEF Owned
  <2> QED
    BY <2>12, <2>13
<1>10. Start \/ Element => ~(Close \/ DeleteItem)
  BY Zenon DEF Start, Element, Close, DeleteItem
<1>11. NoMemory => Kept
  BY Zenon DEF NoMemory, Kept, heapVars
<1> QED
  BY <1>5, <1>6, <1>7, <1>8, <1>9, <1>10, <1>11, Zenon

(* ... and so do the characters.                                            *)
LEMMA HeldStep == ASSUME Tree, HeapSteps PROVE Held'
<1>1. /\ Typed /\ Held /\ allocated \in Nat /\ Fresh \in Nat \ {NULL}
      /\ Fresh \notin Live /\ Fresh \notin DOMAIN strings
      /\ items \in [Live -> Cell] /\ \A i \in Live : i \in Nat /\ items[i] \in Cell
      /\ \A h \in Holds : h[2] \in DOMAIN strings
      /\ \A g, h \in Holds : g[2] = h[2] => g = h
      /\ \A a \in DOMAIN strings : \E h \in Holds : h[2] = a
  <2>1. Typed /\ Held
    BY DEF Tree
  <2>2. /\ allocated \in Nat /\ Fresh \in Nat \ {NULL} /\ Fresh \notin Live /\ Fresh \notin DOMAIN strings
        /\ items \in [Live -> Cell]
    BY <2>1 DEF Typed, Cells, Arrays, Fresh, NULL
  <2> QED
    BY <2>1, <2>2, Elements, Zenon DEF Held
<1>2. ASSUME Holds' = Holds, DOMAIN strings' = DOMAIN strings PROVE Held'
  BY <1>1, <1>2, Zenon DEF Held
<1>3. CASE Kept \/ FilledIn
  <2>1. /\ Live' = Live /\ strings' = strings
        /\ \A i \in Live : /\ items'[i].valuestring = items[i].valuestring
                           /\ items'[i].string = items[i].string
    BY <1>3 DEF Kept, FilledIn, Filled, Live
  <2>2. Holds' = Holds
    BY <2>1 DEF Holds
  <2> QED
    BY <1>2, <2>1, <2>2
<1>4. CASE CharsAdded
  <2>1. /\ Live' = Live /\ strings' = Extend(strings, Fresh, Here) /\ current \in Live
        /\ \A j \in Live : j # current => items'[j] = items[j]
    BY <1>4 DEF CharsAdded, Filled
  <2>2. DOMAIN strings' = DOMAIN strings \cup {Fresh}
    BY <2>1 DEF Extend
  <2>3. PICK f \in Nat \ {NULL} : f = Fresh
    BY <1>1
  <2>4. PICK n : n = <<current, f>>
    OBVIOUS
  <2>5. \/ /\ items[current].valuestring = NULL /\ items'[current].valuestring = f
           /\ items'[current].string = items[current].string
        \/ /\ items[current].string = NULL /\ items'[current].string = f
           /\ items'[current].valuestring = items[current].valuestring
    BY <1>4, <2>3 DEF CharsAdded
  <2>6. Holds' = Holds \cup {n} /\ n[2] = f
    <3>1. current \in Nat
      BY <1>1, <2>1
    <3> QED
      BY <2>1, <2>3, <2>4, <2>5, <3>1 DEF Holds
  <2>7. \A h \in Holds' : h[2] \in DOMAIN strings'
    BY <1>1, <2>2, <2>3, <2>6, Zenon
  <2>8. \A g, h \in Holds' : g[2] = h[2] => g = h
    <3>1. \A h \in Holds : h[2] # f
      BY <1>1, <2>3, Zenon
    <3> QED
      BY <1>1, <2>6, <3>1, Zenon
  <2>9. \A a \in DOMAIN strings' : \E h \in Holds' : h[2] = a
    BY <1>1, <2>2, <2>3, <2>6, Zenon
  <2> QED
    BY <2>7, <2>8, <2>9, Zenon DEF Held
<1>5. ASSUME NEW linked \in BOOLEAN, ItemAdded(linked) PROVE Held'
  <2>1. /\ Live' = Live \cup {Fresh} /\ strings' = strings
        /\ items'[Fresh].valuestring = NULL /\ items'[Fresh].string = NULL
    BY <1>5 DEF ItemAdded, EmptyItem
  <2>2. ASSUME NEW i \in Live
        PROVE  items'[i].valuestring = items[i].valuestring /\ items'[i].string = items[i].string
    BY <1>1, <1>5 DEF ItemAdded, Cell
  <2>3. Holds' = Holds
    BY <1>1, <2>1, <2>2 DEF Holds
  <2> QED
    BY <1>2, <2>1, <2>3
<1>6. CASE ListClosed
  <2>1. /\ Live' = Live /\ strings' = strings /\ \A i \in Live : items'[i] = Closed(i)
    BY <1>6 DEF ListClosed
  <2>2. ASSUME NEW i \in Live
        PROVE  items'[i].valuestring = items[i].valuestring /\ items'[i].string = items[i].string
    BY <1>1, <2>1 DEF Closed, Cell
  <2>3. Holds' = Holds
    BY <2>1, <2>2 DEF Holds
  <2> QED
    BY <1>2, <2>1, <2>3
<1>7. CASE ItemFreed
  <2>1. /\ Live' = Live \ {Item} /\ \A i \in Live' : items'[i] = items[i]
        /\ strings' = Without(strings, Chars)
    BY <1>7 DEF ItemFreed
  <2>2. DOMAIN strings' = DOMAIN strings \ Chars
    BY <2>1 DEF Without
  <2>3. Item \in Live
    <3>1. DeleteItem /\ Owned
      BY <1>7 DEF ItemFreed, Tree
    <3>2. Len(deleting) \in DOMAIN deleting
      BY <1>1, <3>1 DEF DeleteItem, Typed, Freeing
    <3> QED
      BY <1>1, <3>1, <3>2, Pointers DEF Item
  <2>4. \A h \in Holds : h \in Holds' <=> h[1] # Item
    BY <2>1 DEF Holds
  <2>5. Holds' \subseteq Holds
    BY <2>1 DEF Holds
  <2>6. \A h \in Holds : h[1] = Item <=> h[2] \in Chars
    <3>1. \A a \in Chars : a \in DOMAIN strings => <<Item, a>> \in Holds
      BY <1>1, <2>3 DEF Chars, Holds, Typed, Arrays, NULL
    <3>2. \A h \in Holds : h[1] = Item => h[2] \in Chars
      BY DEF Holds, Chars
    <3>3. ASSUME NEW h \in Holds, h[2] \in Chars PROVE h[1] = Item
      <4>1. <<Item, h[2]>> \in Holds
        BY <1>1, <3>1, <3>3
      <4>2. PICK g \in Holds : g = <<Item, h[2]>>
        BY <4>1
      <4>3. g[2] = h[2] /\ g[1] = Item
        BY <4>2
      <4> QED
        BY <1>1, <4>3
    <3> QED
      BY <3>2, <3>3
  <2> QED
    BY <1>1, <2>2, <2>4, <2>5, <2>6, Zenon DEF Held
<1> QED
  BY <1>3, <1>4, <1>5, <1>6, <1>7, Zenon DEF HeapSteps

LEMMA TreeStep == Tree /\ [Next]_vars => Tree'
BY HeapStep, TypedStep, OrderedStep, OwnedStep, HeldStep, Zenon DEF Tree

(* Tree is the inductive invariant of all texts.                            *)
THEOREM TreeInvariant == Spec => []Tree
BY InitTree, TreeStep, PTL DEF Spec

-----------------------------------------------------------------------------
(* Everything has its type at every moment (TypeOK).                        *)
THEOREM TypeCorrect == Spec => []TypeOK
<1>1. Tree => TypeOK
  <2> SUFFICES ASSUME Tree PROVE TypeOK
    OBVIOUS
  <2>1. /\ Typed /\ Owned /\ Held /\ Cells /\ Arrays /\ Reading /\ Levels /\ Handles
        /\ Nested /\ short \in BOOLEAN
    BY Zenon DEF Tree, Typed, Ordered
  <2>2. text[Len(text)] = "NUL" /\ offset \in Nat /\ depth \in Nat
    BY <2>1, TextsAssumption DEF Reading, Levels
  <2>3. Live \subseteq Addresses /\ DOMAIN strings \subseteq Addresses \ Live
    BY <2>1 DEF Cells, Arrays, Addresses
  <2>4. ASSUME NEW i \in Live
        PROVE  /\ items[i].type \in {"none", "string", "number", "[", "{"} \cup Literals
               /\ {items[i].next, items[i].prev, items[i].child, items[i].valuestring,
                   items[i].string} \subseteq {NULL} \cup Addresses
    <3>1. items[i] \in Cell
      BY <2>1, Elements
    <3>2. {items[i].prev, items[i].child} \subseteq {NULL} \cup Addresses
      BY <2>1, <3>1 DEF Cells, Cell, Addresses, NULL
    <3>3. {items[i].next, items[i].valuestring, items[i].string} \subseteq {NULL} \cup Addresses
      BY <2>1, <2>3, Pointers, CharPointers
    <3> QED
      BY <3>1, <3>2, <3>3, Zenon DEF Cell, Types
  <2>5. \A a \in DOMAIN strings : strings[a] \in Strings
    BY <2>1, Zenon DEF Arrays
  <2>6. ASSUME NEW k \in DOMAIN frames
        PROVE  frames[k].opener \in DOMAIN Closer /\ frames[k].item \in Live
    BY <2>1, Elements, Zenon DEF Nested, Frame, Closer
  <2>7. {current, root, data, cursor} \subseteq {NULL} \cup Addresses
    BY <2>1 DEF Handles, Cells, Addresses, NULL
  <2> QED
    BY <2>1, <2>2, <2>3, <2>4, <2>5, <2>6, <2>7, Zenon DEF TypeOK, Typed
<1> QED
  BY <1>1, TreeInvariant, PTL

(* Whatever the text, the parser reads it inside its buffer (Inside).       *)
THEOREM StaysInside == Spec => []Inside
<1>1. Tree => Inside
  BY DEF Tree, Typed, Reading, Inside, CanAccess
<1> QED
  BY <1>1, TreeInvariant, PTL

-----------------------------------------------------------------------------
(* One owner. *)

(* The owners of an item are the references to it.                          *)
LEMMA OwnersAreRefs ==
    ASSUME Typed, NEW i \in Nat \ {NULL}
    PROVE  /\ \A r \in Refs : r[3] = i => <<r[1], r[2]>> \in OwnersOf(i)
           /\ \A o \in OwnersOf(i) : \E r \in Refs : r[3] = i /\ o = <<r[1], r[2]>>
<1>1. \A r \in Refs : r[3] = i => <<r[1], r[2]>> \in OwnersOf(i)
  <2>1. \A r \in NextRefs : r[3] = i => <<r[1], r[2]>> \in OwnersOf(i)
    BY DEF NextRefs, OwnersOf
  <2>2. \A r \in ChildRefs : r[3] = i => <<r[1], r[2]>> \in OwnersOf(i)
    BY DEF ChildRefs, OwnersOf
  <2>3. \A r \in LevelRefs : r[3] = i => <<r[1], r[2]>> \in OwnersOf(i)
    BY DEF LevelRefs, OwnersOf
  <2>4. \A r \in DeleteRefs : r[3] = i => <<r[1], r[2]>> \in OwnersOf(i)
    BY DEF DeleteRefs, OwnersOf
  <2>5. \A r \in RootRefs : r[3] = i => <<r[1], r[2]>> \in OwnersOf(i)
    BY DEF RootRefs, OwnersOf
  <2> QED
    BY <2>1, <2>2, <2>3, <2>4, <2>5, Zenon DEF Refs
<1>2. ASSUME NEW o \in OwnersOf(i) PROVE \E r \in Refs : r[3] = i /\ o = <<r[1], r[2]>>
  <2>0. /\ \A j \in Live : j \in Nat
        /\ \A k \in DOMAIN frames : k \in Nat
        /\ \A k \in DOMAIN deleting : k \in Nat
    BY Elements
  <2>1. ASSUME NEW kind, NEW k, o = <<kind, k>>, <<kind, k, i>> \in Refs
        PROVE  \E r \in Refs : r[3] = i /\ o = <<r[1], r[2]>>
    <3>1. PICK r \in Refs : r = <<kind, k, i>>
      BY <2>1
    <3>2. r[1] = kind /\ r[2] = k /\ r[3] = i
      BY <3>1
    <3> QED
      BY <2>1, <3>2, Zenon
  <2>2. CASE \E j \in Live : o = <<"next", j>> /\ items[j].next = i
    <3>1. PICK j \in Live : o = <<"next", j>> /\ items[j].next = i
      BY <2>2
    <3>2. <<"next", j, i>> \in Refs
      BY <2>0, <3>1 DEF Refs, NextRefs
    <3> QED
      BY <2>1, <3>1, <3>2
  <2>3. CASE \E j \in Live \ Entered : o = <<"child", j>> /\ items[j].child = i
    <3>1. PICK j \in Live \ Entered : o = <<"child", j>> /\ items[j].child = i
      BY <2>3
    <3>2. <<"child", j, i>> \in Refs
      BY <2>0, <3>1 DEF Refs, ChildRefs
    <3> QED
      BY <2>1, <3>1, <3>2
  <2>4. CASE \E k \in DOMAIN frames : o = <<"level", k>> /\ frames[k].head = i
    <3>1. PICK k \in DOMAIN frames : o = <<"level", k>> /\ frames[k].head = i
      BY <2>4
    <3>2. <<"level", k, i>> \in Refs
      BY <2>0, <3>1 DEF Refs, LevelRefs
    <3> QED
      BY <2>1, <3>1, <3>2
  <2>5. CASE \E k \in DOMAIN deleting : o = <<"delete", k>> /\ deleting[k].item = i
    <3>1. PICK k \in DOMAIN deleting : o = <<"delete", k>> /\ deleting[k].item = i
      BY <2>5
    <3>2. <<"delete", k, i>> \in Refs
      BY <2>0, <3>1 DEF Refs, DeleteRefs
    <3> QED
      BY <2>1, <3>1, <3>2
  <2>6. CASE o = <<"root", 0>> /\ root = i
    <3>1. <<"root", 0, i>> \in Refs
      BY <2>6 DEF Refs, RootRefs
    <3> QED
      BY <2>1, <2>6, <3>1
  <2> QED
    BY <2>2, <2>3, <2>4, <2>5, <2>6, Zenon DEF OwnersOf
<1> QED
  BY <1>1, <1>2

(* When on_message is done, nothing is live: the oldest live item would have *)
(* to be referred to by an older one.                                       *)
LEMMA NothingLeft ==
    ASSUME Tree, pc = "done"
    PROVE  items = <<>> /\ strings = <<>>
<1>1. /\ Typed /\ Owned /\ Held /\ Forward /\ Cells /\ Arrays /\ frames = <<>> /\ deleting = <<>>
  BY DEF Tree, Typed, Ordered, Levels, Freeing
<1>2. root = NULL
  BY DEF Tree, Typed, Handles
<1>3. Live = {}
  <2> SUFFICES ASSUME Live # {} PROVE FALSE
    OBVIOUS
  <2>1. Live \in SUBSET Nat
    BY <1>1, Elements
  <2>2. PICK i \in Live : \A j \in Live : i <= j
    BY <2>1, Least
  <2>3. PICK r \in Refs : r[3] = i
    BY <1>1 DEF Owned, Owns
  <2>4. r \in NextRefs \cup ChildRefs
    <3>1. LevelRefs = {} /\ DeleteRefs = {} /\ RootRefs = {}
      BY <1>1, <1>2 DEF LevelRefs, DeleteRefs, RootRefs
    <3> QED
      BY <2>3, <3>1 DEF Refs
  <2>5. r[2] \in Live /\ r[2] \in Nat /\ i \in Nat /\ r[2] < i
    BY <1>1, <2>1, <2>3, <2>4 DEF NextRefs, ChildRefs, Forward
  <2> QED
    BY <2>2, <2>5
<1>4. DOMAIN strings = {}
  BY <1>1, <1>3 DEF Held, Holds
<1>5. \A S, f : f \in [{} -> S] => f = <<>>
  OBVIOUS
<1>6. items \in [{} -> Cell] /\ strings \in [{} -> Strings]
  BY <1>1, <1>3, <1>4, Zenon DEF Cells, Arrays
<1> QED
  BY <1>5, <1>6, Zenon

(* At every moment, an allocation that fails included, each item and each   *)
(* array of characters that is live is referred to exactly once, and        *)
(* nothing that was freed is; when on_message is done with a payload        *)
(* nothing is left (OneOwner).                                              *)
THEOREM OwnedOnce == Spec => []OneOwner
<1>1. Tree => OneOwner
  <2> SUFFICES ASSUME Tree PROVE OneOwner
    OBVIOUS
  <2>1. Typed /\ Owned /\ Held /\ Owns(Refs, Live)
    BY DEF Tree, Owned
  <2>2. \A i \in Addresses : i \in Nat \ {NULL}
    BY <2>1 DEF Addresses, Typed, Cells, NULL
  <2>3. ASSUME NEW i \in Addresses, i \in Live PROVE \E o \in OwnersOf(i) : OwnersOf(i) = {o}
    <3>1. PICK r \in Refs : r[3] = i
      BY <2>1, <2>3 DEF Owns
    <3>2. \A q \in Refs : q[3] = i => q = r
      BY <2>1, <3>1 DEF Owns
    <3>3. <<r[1], r[2]>> \in OwnersOf(i)
      BY <2>1, <2>2, <3>1, OwnersAreRefs, Zenon
    <3>4. \A o \in OwnersOf(i) : o = <<r[1], r[2]>>
      BY <2>1, <2>2, <3>2, OwnersAreRefs, Zenon
    <3> QED
      BY <3>3, <3>4, Zenon
  <2>4. ASSUME NEW i \in Addresses, i \notin Live PROVE OwnersOf(i) = {}
    <3>1. \A r \in Refs : r[3] # i
      BY <2>1, <2>4 DEF Owns
    <3> QED
      BY <2>1, <2>2, <3>1, OwnersAreRefs, Zenon
  <2>5. ASSUME NEW a \in Addresses
        PROVE  IF a \in DOMAIN strings THEN \E i \in Live : HoldersOf(a) = {i}
                                       ELSE HoldersOf(a) = {}
    <3>1. \A i \in HoldersOf(a) : <<i, a>> \in Holds
      BY <2>1, <2>2, Elements DEF HoldersOf, Holds
    <3>2. \A h \in Holds : h[2] = a => h[1] \in HoldersOf(a) /\ h[1] \in Live
      BY DEF Holds, HoldersOf
    <3>3. CASE a \in DOMAIN strings
      <4>1. PICK h \in Holds : h[2] = a
        BY <2>1, <3>3 DEF Held
      <4>2. ASSUME NEW i \in HoldersOf(a) PROVE i = h[1]
        <5>1. PICK g \in Holds : g = <<i, a>>
          BY <3>1
        <5>2. g[1] = i /\ g[2] = a
          BY <5>1
        <5> QED
          BY <2>1, <4>1, <5>2 DEF Held
      <4> QED
        BY <3>2, <3>3, <4>1, <4>2, Zenon
    <3>4. CASE a \notin DOMAIN strings
      <4>1. ASSUME NEW i \in HoldersOf(a) PROVE FALSE
        <5>1. PICK g \in Holds : g = <<i, a>>
          BY <3>1
        <5>2. g[2] = a
          BY <5>1
        <5> QED
          BY <2>1, <3>4, <5>2 DEF Held
      <4> QED
        BY <3>4, <4>1, Zenon
    <3> QED
      BY <3>3, <3>4
  <2>6. pc = "done" => items = <<>> /\ strings = <<>>
    BY NothingLeft
  <2> QED
    BY <2>3, <2>4, <2>5, <2>6, Zenon DEF OneOwner
<1> QED
  BY <1>1, TreeInvariant, PTL

-----------------------------------------------------------------------------
(* Nesting. *)

(* The levels of what there is do not depend on that of an address that is  *)
(* still to be given out.                                                   *)
LEMMA LevelOfNew ==
    ASSUME Tree, Leveled
    PROVE  \E L \in [Nat -> Nat] : /\ ItemLevels(L) /\ FrameLevels(L) /\ CurrentLevel(L)
                                   /\ DeletionLevels(L) /\ L[Fresh] = Len(frames)
<1>1. PICK K \in [Nat -> Nat] :
        ItemLevels(K) /\ FrameLevels(K) /\ CurrentLevel(K) /\ DeletionLevels(K)
  BY DEF Leveled
<1>2. /\ Typed /\ Owned /\ Nested /\ allocated \in Nat /\ Live \subseteq 1..allocated
      /\ current \in 0..allocated /\ root \in 0..allocated /\ Len(frames) \in Nat
      /\ \A i \in Live : items[i].child <= allocated
  BY Elements DEF Tree, Typed, Ordered, Cells, Handles
<1> DEFINE L == [K EXCEPT ![Fresh] = Len(frames)]
<1>3. Fresh = allocated + 1 /\ Fresh \in Nat
  BY <1>2 DEF Fresh
<1>4. L \in [Nat -> Nat] /\ L[Fresh] = Len(frames) /\ \A a \in 0..allocated : L[a] = K[a]
  <2>1. L \in [Nat -> Nat] /\ L[Fresh] = Len(frames)
    BY <1>2, <1>3
  <2>2. \A a \in 0..allocated : a \in Nat /\ a # Fresh
    BY <1>2, <1>3
  <2> QED
    BY <2>1, <2>2
<1> HIDE DEF L
<1>5. {NULL} \cup Live \subseteq 0..allocated
  <2>1. allocated \in Nat /\ Live \subseteq 1..allocated
    BY <1>2, Zenon
  <2>2. NULL \in 0..allocated
    BY <2>1 DEF NULL
  <2>3. \A i \in 1..allocated : i \in 0..allocated
    BY <2>1
  <2> QED
    BY <2>1, <2>2, <2>3, Zenon
<1>6. \A i \in Live : /\ i \in 0..allocated
                      /\ items[i].next \in 0..allocated /\ items[i].child \in 0..allocated
  <2>1. \A i \in Live : items[i].child \in Nat /\ items[i].next \in {NULL} \cup Live
    BY <1>2, Elements, Pointers DEF Cell
  <2>2. ASSUME NEW i \in Live PROVE items[i].child \in 0..allocated
    <3>1. allocated \in Nat /\ items[i].child \in Nat /\ items[i].child <= allocated
      BY <1>2, <2>1, Zenon
    <3> QED
      BY <3>1
  <2> QED
    BY <1>5, <2>1, <2>2, Zenon
<1>7. /\ \A k \in DOMAIN frames : frames[k].item \in 0..allocated /\ frames[k].head \in 0..allocated
      /\ \A k \in DOMAIN deleting : deleting[k].item \in 0..allocated
  <2>1. \A k \in DOMAIN frames : frames[k].item \in Live /\ frames[k].head \in {NULL} \cup Live
    BY <1>2, Pointers DEF Nested
  <2>2. \A k \in DOMAIN deleting : deleting[k].item \in Live
    BY <1>2, Pointers
  <2> QED
    BY <1>5, <2>1, <2>2, Zenon
<1>8. ItemLevels(L)
  BY <1>1, <1>4, <1>6 DEF ItemLevels
<1>9. FrameLevels(L)
  BY <1>1, <1>4, <1>7 DEF FrameLevels
<1>10. CurrentLevel(L)
  BY <1>1, <1>2, <1>4 DEF CurrentLevel
<1>11. DeletionLevels(L)
  BY <1>1, <1>4, <1>7 DEF DeletionLevels
<1> QED
  BY <1>4, <1>8, <1>9, <1>10, <1>11

(* A new item is as deep as there are levels, and a list is one level below *)
(* its item.                                                                *)
LEMMA ItemLevelsStep ==
    ASSUME Tree, HeapSteps, NEW L \in [Nat -> Nat], ItemLevels(L), FrameLevels(L), CurrentLevel(L),
           L[Fresh] = Len(frames)
    PROVE  ItemLevels(L)'
<1>1. /\ Typed /\ Growing /\ Nested /\ items \in [Live -> Cell] /\ Fresh \notin Live
      /\ Len(frames) <= NESTING_LIMIT
      /\ \A i \in Live : items[i] \in Cell
  <2>1. Typed /\ Growing /\ Nested
    BY DEF Tree, Ordered
  <2>2. items \in [Live -> Cell] /\ Fresh \notin Live /\ Len(frames) <= NESTING_LIMIT
    BY <2>1 DEF Typed, Cells, Levels, Fresh
  <2> QED
    BY <2>1, <2>2, Elements
<1>2. ASSUME Live' \subseteq Live,
             \A i \in Live' : items'[i].next = items[i].next /\ items'[i].child = items[i].child
      PROVE  ItemLevels(L)'
  BY <1>2 DEF ItemLevels
<1>3. CASE Kept \/ FilledIn \/ CharsAdded
  <2>1. /\ Live' = Live
        /\ \A i \in Live : items'[i].next = items[i].next /\ items'[i].child = items[i].child
    BY <1>3 DEF Kept, FilledIn, CharsAdded, Filled, Live
  <2> QED
    BY <1>2, <2>1
<1>4. CASE ItemAdded(FALSE)
  <2>1. /\ Live' = Live \cup {Fresh} /\ items'[Fresh].next = NULL /\ items'[Fresh].child = NULL
        /\ \A i \in Live : items'[i] = items[i]
    BY <1>4 DEF ItemAdded, EmptyItem
  <2> QED
    BY <1>1, <2>1 DEF ItemLevels
<1>5. CASE ItemAdded(TRUE)
  <2>1. /\ Live' = Live \cup {Fresh} /\ items'[Fresh].next = NULL /\ items'[Fresh].child = NULL
        /\ \A i \in Live : i # current => items'[i] = items[i]
        /\ items'[current] = [items[current] EXCEPT !.next = Fresh]
        /\ Element /\ Top.head # NULL
    BY <1>5 DEF ItemAdded, EmptyItem
  <2>2. Parsing /\ current \in Live /\ L[current] = Len(frames)
    BY <1>1, <2>1 DEF Element, Parsing, Growing, CurrentLevel
  <2>3. items'[current].next = Fresh /\ items'[current].child = items[current].child
    BY <1>1, <2>1, <2>2 DEF Cell
  <2>4. \A i \in Live : i # current =>
           items'[i].next = items[i].next /\ items'[i].child = items[i].child
    BY <2>1
  <2>5. ASSUME NEW i \in Live
        PROVE  /\ L[i] <= NESTING_LIMIT
               /\ items'[i].next # NULL => L[items'[i].next] = L[i]
               /\ items'[i].child # NULL => L[items'[i].child] = L[i] + 1
    <3>1. CASE i = current
      BY <1>1, <2>2, <2>3, <3>1 DEF ItemLevels
    <3>2. CASE i # current
      BY <2>4, <3>2 DEF ItemLevels
    <3> QED
      BY <3>1, <3>2
  <2> QED
    BY <1>1, <2>1, <2>5 DEF ItemLevels
<1>6. CASE ListClosed
  <2>1. /\ Live' = Live /\ \A i \in Live : items'[i] = Closed(i)
        /\ frames # <<>>
    BY <1>1, <1>6 DEF ListClosed, Close, Typed, Levels
  <2>2. \A i \in Live : /\ Closed(i).next = items[i].next
                        /\ Closed(i).child = IF i = Top.item THEN Top.head ELSE items[i].child
    BY <1>1 DEF Closed, Cell
  <2>3. PICK n \in Nat \ {0} : n = Len(frames) /\ n \in DOMAIN frames /\ Top = frames[n]
    BY <1>1, <2>1, TopFrame DEF Top
  <2>4. Top.head # NULL => L[Top.head] = L[Top.item] + 1
    <3>1. L[Top.item] = n - 1 /\ (Top.head # NULL => L[Top.head] = n)
      BY <2>3, Zenon DEF FrameLevels
    <3> QED
      BY <3>1
  <2>5. ASSUME NEW i \in Live
        PROVE  /\ L[i] <= NESTING_LIMIT
               /\ items'[i].next # NULL => L[items'[i].next] = L[i]
               /\ items'[i].child # NULL => L[items'[i].child] = L[i] + 1
    <3>1. items'[i].next = items[i].next
      BY <2>1, <2>2
    <3>2. CASE i = Top.item
      <4>1. items'[i].child = Top.head
        BY <2>1, <2>2, <3>2
      <4> QED
        BY <2>4, <3>1, <3>2, <4>1 DEF ItemLevels
    <3>3. CASE i # Top.item
      <4>1. items'[i].child = items[i].child
        BY <2>1, <2>2, <3>3
      <4> QED
        BY <3>1, <4>1 DEF ItemLevels
    <3> QED
      BY <3>2, <3>3
  <2> QED
    BY <2>1, <2>5 DEF ItemLevels
<1>7. CASE ItemFreed
  BY <1>2, <1>7 DEF ItemFreed
<1> QED
  BY <1>3, <1>4, <1>5, <1>6, <1>7, Zenon DEF HeapSteps

(* What the frames of the parser become in a step.                          *)
LEMMA FramesStep ==
    ASSUME Tree, [Next]_vars
    PROVE  \/ frames' = frames
           \/ /\ Open /\ ~Fail /\ Len(frames') = Len(frames) + 1
              /\ DOMAIN frames' = DOMAIN frames \cup {Len(frames) + 1}
              /\ \A k \in DOMAIN frames : frames'[k] = frames[k]
              /\ frames'[Len(frames) + 1].item = current /\ frames'[Len(frames) + 1].head = NULL
           \/ Element /\ ~NoMemory /\ frames' = HeadSet /\ frames # <<>>
           \/ /\ Close \/ Unwind
              /\ frames # <<>> /\ frames' = Pop /\ Len(frames') = Len(frames) - 1
              /\ DOMAIN frames' = DOMAIN frames \ {Len(frames)}
              /\ \A k \in DOMAIN frames' : frames'[k] = frames[k]
<1>1. Typed /\ frames \in Seq(Frame) /\ (pc \in {"element", "name", "close"} => frames # <<>>)
  BY DEF Tree, Typed, Levels
<1>2. PICK n \in Nat : n = Len(frames) /\ DOMAIN frames = 1..n
  BY <1>1
<1>3. CASE Open /\ ~Fail
  <2>1. frames' = Append(frames, [opener |-> Here, item |-> current, head |-> NULL])
    BY <1>3, Zenon DEF Open
  <2>2. PICK f : f = [opener |-> Here, item |-> current, head |-> NULL]
    OBVIOUS
  <2>3. f.item = current /\ f.head = NULL /\ frames' = Append(frames, f)
    BY <2>1, <2>2
  <2>4. /\ Len(frames') = n + 1 /\ DOMAIN frames' = 1..(n + 1) /\ frames'[n + 1] = f
        /\ \A k \in 1..n : frames'[k] = frames[k]
    BY <1>1, <1>2, <2>3
  <2>5. 1..(n + 1) = (1..n) \cup {n + 1}
    OBVIOUS
  <2> QED
    BY <1>2, <1>3, <2>3, <2>4, <2>5, Zenon
<1>4. ASSUME frames' = Pop, frames # <<>>
      PROVE  /\ Len(frames') = Len(frames) - 1
             /\ DOMAIN frames' = DOMAIN frames \ {Len(frames)}
             /\ \A k \in DOMAIN frames' : frames'[k] = frames[k]
  <2>1. /\ Len(Pop) = Len(frames) - 1 /\ DOMAIN Pop = 1..(Len(frames) - 1)
        /\ \A k \in 1..(Len(frames) - 1) : Pop[k] = frames[k]
    BY <1>1, <1>4, Popped
  <2>2. 1..(n - 1) = (1..n) \ {n}
    OBVIOUS
  <2> QED
    BY <1>2, <1>4, <2>1, <2>2, Zenon
<1>5. CASE Close
  <2>1. frames' = Pop /\ frames # <<>>
    BY <1>1, <1>5, Zenon DEF Close
  <2> QED
    BY <1>4, <1>5, <2>1, Zenon
<1>6. CASE Unwind
  <2>1. frames' = frames \/ (frames' = Pop /\ frames # <<>>)
    BY <1>6, Zenon DEF Unwind
  <2> QED
    BY <1>4, <1>6, <2>1, Zenon
<1>7. CASE Element /\ ~NoMemory
  <2>1. frames' = HeadSet /\ frames # <<>>
    BY <1>1, <1>7, Zenon DEF Element, HeadSet
  <2> QED
    BY <1>7, <2>1, Zenon
<1>8. NoMemory \/ Fail => frames' = frames
  BY Zenon DEF NoMemory, Fail
<1>9. CASE Start \/ Literal \/ parse_number \/ StringValue \/ NoValue \/ Name \/ Return \/ SearchOn
           \/ SearchEnds \/ WalkOn \/ WalkEnds \/ DeleteChildren \/ DeleteItem \/ Deleted
           \/ UNCHANGED vars
  BY <1>8, <1>9, Zenon DEF Start, Literal, parse_number, StringValue, NoValue, Name, Return, SearchOn,
     SearchEnds, WalkOn, WalkEnds, DeleteChildren, DeleteItem, Deleted, Parsed, vars
<1> QED
  BY <1>3, <1>5, <1>6, <1>7, <1>8, <1>9, Zenon DEF Next

LEMMA FrameLevelsStep ==
    ASSUME Tree, [Next]_vars, NEW L \in [Nat -> Nat], FrameLevels(L), CurrentLevel(L),
           L[Fresh] = Len(frames)
    PROVE  FrameLevels(L)'
<1>1. Typed /\ Growing
  BY DEF Tree
<1>2. CASE frames' = frames
  BY <1>2 DEF FrameLevels
<1>3. CASE /\ Open /\ ~Fail /\ Len(frames') = Len(frames) + 1
           /\ DOMAIN frames' = DOMAIN frames \cup {Len(frames) + 1}
           /\ \A k \in DOMAIN frames : frames'[k] = frames[k]
           /\ frames'[Len(frames) + 1].item = current /\ frames'[Len(frames) + 1].head = NULL
  <2>1. L[current] = Len(frames) /\ Len(frames) \in Nat
    BY <1>1, <1>3, Elements DEF Open, Growing, CurrentLevel, Parsing
  <2>2. ASSUME NEW k \in DOMAIN frames'
        PROVE  /\ L[frames'[k].item] = k - 1
               /\ frames'[k].head # NULL => L[frames'[k].head] = k
    <3>1. CASE k = Len(frames) + 1
      <4>1. frames'[k].item = current /\ frames'[k].head = NULL
        BY <1>3, <3>1, Zenon
      <4>2. (Len(frames) + 1) - 1 = Len(frames)
        BY <2>1
      <4> QED
        BY <2>1, <3>1, <4>1, <4>2, Zenon
    <3>2. CASE k \in DOMAIN frames
      BY <1>3, <3>2, Zenon DEF FrameLevels
    <3> QED
      BY <1>3, <3>1, <3>2, Zenon
  <2> QED
    BY <2>2, Zenon DEF FrameLevels
<1>4. CASE Element /\ ~NoMemory /\ frames' = HeadSet /\ frames # <<>>
  <2>1. /\ DOMAIN HeadSet = DOMAIN frames
        /\ \A k \in DOMAIN frames : /\ HeadSet[k].item = frames[k].item
                                    /\ k # Len(frames) => HeadSet[k].head = frames[k].head
        /\ HeadSet[Len(frames)].head \in {Fresh, frames[Len(frames)].head}
    BY <1>1, <1>4, Headed DEF Top
  <2>2. ASSUME NEW k \in DOMAIN frames
        PROVE  /\ L[HeadSet[k].item] = k - 1
               /\ HeadSet[k].head # NULL => L[HeadSet[k].head] = k
    <3>1. CASE HeadSet[k].head = frames[k].head
      BY <2>1, <3>1, Zenon DEF FrameLevels
    <3>2. CASE HeadSet[k].head # frames[k].head
      <4>1. k = Len(frames) /\ HeadSet[k].head = Fresh
        BY <2>1, <3>2, Zenon
      <4> QED
        BY <2>1, <4>1, Zenon DEF FrameLevels
    <3> QED
      BY <3>1, <3>2
  <2> QED
    BY <1>4, <2>1, <2>2, Zenon DEF FrameLevels
<1>5. CASE /\ DOMAIN frames' = DOMAIN frames \ {Len(frames)}
           /\ \A k \in DOMAIN frames' : frames'[k] = frames[k]
  BY <1>5, Zenon DEF FrameLevels
<1> QED
  BY <1>2, <1>3, <1>4, <1>5, FramesStep, Zenon

LEMMA CurrentLevelStep ==
    ASSUME Tree, [Next]_vars, NEW L \in [Nat -> Nat], FrameLevels(L), CurrentLevel(L),
           L[Fresh] = Len(frames)
    PROVE  CurrentLevel(L)'
<1>1. Typed /\ Growing /\ (pc = "start" => frames = <<>>)
      /\ (pc \in {"element", "name", "close"} => frames # <<>>)
  BY DEF Tree, Typed, Levels
<1>2. /\ Parsing /\ (frames = <<>> \/ Top.head # NULL) => L[current] = Len(frames)
      /\ root # NULL => L[root] = 0
  BY DEF CurrentLevel
<1>3. ASSUME ~Parsing', root' \in {root, NULL} PROVE CurrentLevel(L)'
  BY <1>2, <1>3 DEF CurrentLevel
<1>4. NoMemory \/ Fail => ~Parsing' /\ root' = root
  BY DEF NoMemory, Fail, Parsing, useVars
<1>5. ASSUME Parsing, current' = current, frames' = frames, root' = root PROVE CurrentLevel(L)'
  BY <1>2, <1>5 DEF CurrentLevel, Top
<1>6. CASE (Start \/ Element) /\ ~NoMemory
  <2>1. current' = Fresh /\ (Start => root' = Fresh /\ frames' = frames /\ frames = <<>>)
        /\ (Element => root' = root /\ frames' = HeadSet /\ frames # <<>>)
    BY <1>1, <1>6, Zenon DEF Start, Element, HeadSet, useVars
  <2>2. Len(frames') = Len(frames)
    BY <1>1, <1>6, <2>1, Headed
  <2>3. Len(<<>>) = 0
    OBVIOUS
  <2> QED
    BY <1>2, <1>6, <2>1, <2>2, <2>3, Zenon DEF CurrentLevel
<1>7. CASE Literal \/ parse_number \/ StringValue \/ NoValue \/ Name \/ Return
  <2>1. current' = current /\ frames' = frames /\ root' = root
    BY <1>7, Zenon DEF Literal, parse_number, StringValue, NoValue, Name, Return, Parsed, NoMemory,
       Fail, useVars
  <2>2. Parsing
    BY <1>7, Zenon DEF Literal, parse_number, StringValue, NoValue, Name, Return, Parsing
  <2> QED
    BY <1>5, <2>1, <2>2
<1>8. CASE Open
  <2>1. CASE Fail
    BY <1>3, <1>4, <2>1
  <2>2. CASE ~Fail
    <3>1. /\ Len(frames') = Len(frames) + 1 /\ Len(frames) \in Nat
          /\ frames'[Len(frames) + 1].head = NULL
      <4>1. ~(frames' = frames) /\ ~Element /\ ~Close /\ ~Unwind
        <5>1. frames' = Append(frames, [opener |-> Here, item |-> current, head |-> NULL])
          BY <1>8, <2>2, Zenon DEF Open
        <5>2. frames \in Seq(Frame) /\ pc = "value"
          BY <1>1, <1>8, Zenon DEF Typed, Levels, Open
        <5>3. PICK f : f = [opener |-> Here, item |-> current, head |-> NULL]
          OBVIOUS
        <5>4. frames' = Append(frames, f)
          BY <5>1, <5>3, Zenon
        <5>5. frames' # frames
          BY <5>2, <5>4
        <5> QED
          BY <5>2, <5>5, Zenon DEF Element, Close, Unwind
      <4> QED
        BY <1>1, <4>1, FramesStep, Elements
    <3>2. frames' # <<>> /\ Top'.head = NULL
      BY <3>1 DEF Top
    <3>3. root' = root
      BY <1>8, <2>2, Zenon DEF Open, useVars
    <3> QED
      BY <1>2, <3>2, <3>3, SMTT(60) DEF CurrentLevel
  <2> QED
    BY <2>1, <2>2
<1>9. CASE Close
  <2>1. /\ current' = Top.item /\ frames' = Pop /\ frames # <<>> /\ root' = root
    BY <1>1, <1>9, Zenon DEF Close, useVars
  <2>2. Len(Pop) = Len(frames) - 1 /\ L[Top.item] = Len(frames) - 1
    BY <1>1, <2>1, Popped, TopFrame DEF FrameLevels, Top
  <2> QED
    BY <1>2, <2>1, <2>2, Zenon DEF CurrentLevel
<1>10. CASE Unwind \/ SearchOn \/ SearchEnds \/ WalkOn \/ WalkEnds \/ DeleteChildren \/ DeleteItem
            \/ Deleted
  <2>1. root' \in {root, NULL}
    BY <1>10 DEF Unwind, SearchOn, SearchEnds, WalkOn, WalkEnds, DeleteChildren, DeleteItem, Deleted,
       useVars
  <2>2. ~Parsing'
    BY <1>10 DEF Unwind, SearchOn, SearchEnds, WalkOn, WalkEnds, DeleteChildren, DeleteItem, Deleted,
       Parsing
  <2> QED
    BY <1>3, <2>1, <2>2
<1>11. CASE UNCHANGED vars
  BY <1>2, <1>11 DEF vars, useVars, CurrentLevel, Parsing, Top
<1> QED
  BY <1>3, <1>4, <1>6, <1>7, <1>8, <1>9, <1>10, <1>11, Zenon DEF Next

LEMMA DeletionLevelsStep ==
    ASSUME Tree, [Next]_vars, NEW L \in [Nat -> Nat], ItemLevels(L), DeletionLevels(L)
    PROVE  DeletionLevels(L)'
<1>1. /\ Typed /\ Owned /\ (pc # "delete" => deleting = <<>>)
      /\ \A k \in DOMAIN deleting : k \in Nat /\ deleting[k].item \in Live
      /\ \A k \in DOMAIN deleting : k - 1 <= L[deleting[k].item]
      /\ \A i \in Live : i \in Nat /\ items[i].next \in Nat /\ items[i].child \in Nat
  <2>1. Typed /\ Owned
    BY DEF Tree
  <2>2. pc # "delete" => deleting = <<>>
    BY <2>1 DEF Typed, Freeing
  <2> QED
    BY <2>1, <2>2, Elements, Pointers DEF DeletionLevels, Cell
<1>2. ASSUME deleting' = deleting PROVE DeletionLevels(L)'
  BY <1>2 DEF DeletionLevels
<1>3. ASSUME NEW i \in Nat \ {NULL}, deleting' = <<[item |-> i, entered |-> FALSE]>>
      PROVE  DeletionLevels(L)'
  <2>1. DOMAIN deleting' = {1} /\ deleting'[1].item = i
    BY <1>3, Begun
  <2>2. 1 - 1 <= L[i]
    OBVIOUS
  <2> QED
    BY <2>1, <2>2, Zenon DEF DeletionLevels
<1>4. CASE Start \/ Literal \/ parse_number \/ StringValue \/ NoValue \/ Open \/ Element \/ Name
           \/ Return \/ Close \/ SearchOn \/ SearchEnds \/ WalkOn \/ Deleted \/ UNCHANGED vars
  <2>1. deleting' = deleting
    BY <1>4, Zenon DEF Start, Literal, parse_number, StringValue, NoValue, Open, Element, Name, Return, Close,
       SearchOn, SearchEnds, WalkOn, Deleted, Parsed, NoMemory, Fail, vars
  <2> QED
    BY <1>2, <2>1
<1>5. CASE Unwind \/ WalkEnds
  <2>1. \/ deleting' = deleting
        \/ ListToDelete # NULL /\ deleting' = <<[item |-> ListToDelete, entered |-> FALSE]>>
        \/ pc = "walk" /\ deleting' = <<[item |-> root, entered |-> FALSE]>>
    BY <1>5, Zenon DEF Unwind, WalkEnds
  <2>2. root \in Nat /\ (pc = "walk" => root # NULL) /\ (frames # <<>> => Top.head \in Nat)
    <3>1. root \in Nat /\ (pc = "walk" => root # NULL)
      BY <1>1 DEF Typed, Handles, Cells
    <3>2. frames # <<>> => Top.head \in Nat
      BY <1>1, TopFrame, Zenon DEF Frame
    <3> QED
      BY <3>1, <3>2
  <2>3. ListToDelete \in Nat
    BY <2>2, Zenon DEF ListToDelete
  <2> QED
    BY <1>2, <1>3, <2>1, <2>2, <2>3
<1>6. CASE DeleteChildren
  <2>1. /\ DOMAIN deleting' = DOMAIN deleting \cup {Len(deleting) + 1}
        /\ \A k \in DOMAIN deleting : deleting'[k].item = deleting[k].item
        /\ deleting'[Len(deleting) + 1].item = items[Item].child
        /\ Len(deleting) \in DOMAIN deleting
    BY <1>1, <1>6, Descends, Zenon
  <2>2. L[items[Item].child] = L[Item] + 1
    BY <1>1, <1>6, <2>1 DEF ItemLevels, DeleteChildren, Item
  <2>3. Len(deleting) - 1 <= L[Item] /\ Len(deleting) \in Nat /\ L[Item] \in Nat
    BY <1>1, <2>1 DEF Item
  <2>4. (Len(deleting) + 1) - 1 <= L[items[Item].child]
    BY <2>2, <2>3
  <2> QED
    BY <1>1, <2>1, <2>4, Zenon DEF DeletionLevels
<1>7. CASE DeleteItem
  <2>1. Len(deleting) \in DOMAIN deleting
    BY <1>1, <1>7 DEF DeleteItem, Typed, Freeing
  <2>2. Item \in Live /\ items[Item].next \in Nat
    BY <1>1, <2>1 DEF Item
  <2>3. /\ \A k \in DOMAIN deleting : k # Len(deleting) => deleting'[k] = deleting[k]
        /\ DOMAIN deleting' \subseteq DOMAIN deleting
        /\ items[Item].next = NULL => Len(deleting) \notin DOMAIN deleting'
        /\ items[Item].next # NULL => deleting'[Len(deleting)].item = items[Item].next
    BY <1>1, <1>7, <2>2, Ascends, Zenon
  <2>4. items[Item].next # NULL => L[items[Item].next] = L[Item]
    BY <2>2 DEF ItemLevels
  <2>5. Len(deleting) - 1 <= L[Item]
    BY <1>1, <2>1 DEF Item
  <2> QED
    BY <1>1, <2>1, <2>3, <2>4, <2>5, Zenon DEF DeletionLevels
<1> QED
  BY <1>4, <1>5, <1>6, <1>7, Zenon DEF Next

(* Neither the parser nor cJSON_Delete recurses deeper than the limit       *)
(* (NestingBounded).                                                        *)
THEOREM RecursionBounded == Spec => []NestingBounded
<1>1. Init => Leveled
  <2> SUFFICES ASSUME Init PROVE Leveled
    OBVIOUS
  <2> DEFINE L == [i \in Nat |-> 0]
  <2>1. L \in [Nat -> Nat] /\ \A i \in Nat : L[i] = 0
    OBVIOUS
  <2>2. Live = {} /\ DOMAIN frames = {} /\ DOMAIN deleting = {} /\ root = NULL /\ ~Parsing
    BY DEF Init, Live, Parsing
  <2> HIDE DEF L
  <2>3. ItemLevels(L) /\ FrameLevels(L) /\ CurrentLevel(L) /\ DeletionLevels(L)
    BY <2>2, Zenon DEF ItemLevels, FrameLevels, CurrentLevel, DeletionLevels
  <2> QED
    BY <2>1, <2>3, Zenon DEF Leveled
<1>2. Tree /\ Leveled /\ [Next]_vars => Leveled'
  <2> SUFFICES ASSUME Tree, Leveled, [Next]_vars PROVE Leveled'
    OBVIOUS
  <2>1. PICK L \in [Nat -> Nat] : /\ ItemLevels(L) /\ FrameLevels(L) /\ CurrentLevel(L)
                                  /\ DeletionLevels(L) /\ L[Fresh] = Len(frames)
    BY LevelOfNew
  <2>2. ItemLevels(L)' /\ FrameLevels(L)' /\ CurrentLevel(L)' /\ DeletionLevels(L)'
    BY <2>1, HeapStep, ItemLevelsStep, FrameLevelsStep, CurrentLevelStep, DeletionLevelsStep, Zenon
  <2> QED
    BY <2>2, Zenon DEF Leveled
<1>3. Tree /\ Leveled => NestingBounded
  <2> SUFFICES ASSUME Tree, Leveled PROVE NestingBounded
    OBVIOUS
  <2>1. PICK L \in [Nat -> Nat] : ItemLevels(L) /\ DeletionLevels(L)
    BY DEF Leveled
  <2>2. Typed /\ Owned /\ Len(frames) <= NESTING_LIMIT /\ deleting \in Seq(Deletion)
    BY DEF Tree, Typed, Levels, Freeing
  <2>3. CASE deleting = <<>>
    <3>1. Len(deleting) <= NESTING_LIMIT + 1
      BY <2>3, JsonAssumption
    <3> QED
      BY <2>2, <3>1 DEF NestingBounded
  <2>4. CASE deleting # <<>>
    <3>1. Len(deleting) \in DOMAIN deleting /\ Len(deleting) \in Nat
      BY <2>2, <2>4
    <3>2. Item \in Live
      BY <2>2, <3>1, Pointers DEF Item
    <3>3. Item \in Nat
      BY <2>2, <3>2, Elements
    <3>4. Len(deleting) - 1 <= L[Item] /\ L[Item] <= NESTING_LIMIT
      BY <2>1, <3>1, <3>2 DEF ItemLevels, DeletionLevels, Item
    <3>5. Len(deleting) <= NESTING_LIMIT + 1
      BY <3>1, <3>3, <3>4, JsonAssumption
    <3> QED
      BY <2>2, <3>5 DEF NestingBounded
  <2> QED
    BY <2>3, <2>4
<1> QED
  BY <1>1, <1>2, <1>3, TreeInvariant, PTL DEF Spec

-----------------------------------------------------------------------------
(* Links. *)

(* The head of a list that is being parsed is referred to by its level only. *)
LEMMA HeadAlone ==
    ASSUME Typed, Owned, deleting = <<>>, NEW k \in DOMAIN frames, frames[k].head # NULL,
           NEW i \in Live
    PROVE  items[i].next # frames[k].head /\ items[i].child # frames[k].head
<1>1. PICK h \in Nat \ {NULL} : h = frames[k].head
  BY Elements, Zenon DEF Frame
<1>2. i \in Nat /\ k \in Nat /\ Entered = {}
  BY Elements DEF Entered
<1>3. PICK r : r = <<"level", k, h>>
  OBVIOUS
<1>4. r \in Refs /\ r[1] = "level" /\ r[3] = h
  BY <1>1, <1>2, <1>3 DEF Refs, LevelRefs
<1>5. ASSUME items[i].next = h PROVE FALSE
  <2>1. PICK q : q = <<"next", i, h>>
    OBVIOUS
  <2>2. q \in Refs /\ q[1] = "next" /\ q[3] = h
    BY <1>1, <1>2, <1>5, <2>1 DEF Refs, NextRefs
  <2> QED
    BY <1>4, <2>2 DEF Owned, Owns
<1>6. ASSUME items[i].child = h PROVE FALSE
  <2>1. PICK q : q = <<"child", i, h>>
    OBVIOUS
  <2>2. q \in Refs /\ q[1] = "child" /\ q[3] = h
    BY <1>1, <1>2, <1>6, <2>1 DEF Refs, ChildRefs
  <2> QED
    BY <1>4, <2>2 DEF Owned, Owns
<1> QED
  BY <1>1, <1>5, <1>6

(* A new item gets the item of the last level for its parent.               *)
LEMMA ParentOfNew ==
    ASSUME Tree, NEW P \in [Nat -> Nat], Chained(P), Parents(P)
    PROVE  \E Q \in [Nat -> Nat] : /\ Chained(Q) /\ Parents(Q)
                                   /\ frames # <<>> => Q[Fresh] = Top.item
<1>1. /\ Typed /\ Owned /\ Nested /\ allocated \in Nat /\ Live \subseteq 1..allocated
      /\ current \in 0..allocated
  BY DEF Tree, Typed, Ordered, Cells, Handles
<1>2. PICK t \in Nat : frames # <<>> => t = Top.item
  <2>1. CASE frames = <<>>
    BY <2>1
  <2>2. CASE frames # <<>>
    BY <1>1, <2>2, TopFrame, Zenon DEF Frame
  <2> QED
    BY <2>1, <2>2
<1> DEFINE Q == [P EXCEPT ![Fresh] = t]
<1>3. Fresh = allocated + 1 /\ Fresh \in Nat
  BY <1>1 DEF Fresh
<1>4. Q \in [Nat -> Nat] /\ Q[Fresh] = t /\ \A a \in 0..allocated : Q[a] = P[a]
  <2>1. Q \in [Nat -> Nat] /\ Q[Fresh] = t
    BY <1>3
  <2>2. \A a \in 0..allocated : a \in Nat /\ a # Fresh
    BY <1>1, <1>3
  <2> QED
    BY <2>1, <2>2
<1> HIDE DEF Q
<1>5. Live \subseteq 0..allocated
  BY <1>1
<1>6. Chained(Q)
  BY <1>4, <1>5, Zenon DEF Chained
<1>7. Parents(Q)
  <2>1. \A k \in DOMAIN frames : frames[k].item \in 0..allocated
    BY <1>1, <1>5, Zenon DEF Nested
  <2> QED
    BY <1>1, <1>4, <2>1, Zenon DEF Parents
<1> QED
  BY <1>2, <1>4, <1>6, <1>7, Zenon

(* Chains whose items keep their links stay; an item that links to nothing  *)
(* is a chain.                                                              *)
LEMMA ChainsCarried ==
    ASSUME NEW P, Chained(P), Live \subseteq Live',
           \A i \in Live : items'[i].next = items[i].next /\ items'[i].prev = items[i].prev
                             /\ items'[i].child = items[i].child,
           \A i \in Live : /\ items[i].next # NULL => items[i].next \in Live
                           /\ items[i].child # NULL => items[i].child \in Live,
           \A i \in Live' \ Live : items'[i].next = NULL /\ items'[i].child = NULL
    PROVE  Chained(P)'
<1>1. ASSUME NEW i \in Live
      PROVE  /\ items'[i].next # NULL => items'[items'[i].next].prev = i
             /\ items'[i].child # NULL => /\ items'[items'[i].child].prev \in Live'
                                         /\ items'[items'[items'[i].child].prev].next = NULL
                                         /\ P[items'[items'[i].child].prev] = i
  <2>1. ASSUME items'[i].next # NULL PROVE items'[items'[i].next].prev = i
    <3>1. PICK j \in Live : j = items[i].next /\ j = items'[i].next /\ j # NULL
      BY <2>1
    <3>2. items[j].prev = i
      BY <3>1 DEF Chained
    <3> QED
      BY <3>1, <3>2
  <2>2. ASSUME items'[i].child # NULL
        PROVE  /\ items'[items'[i].child].prev \in Live'
               /\ items'[items'[items'[i].child].prev].next = NULL
               /\ P[items'[items'[i].child].prev] = i
    <3>1. PICK j \in Live : j = items[i].child /\ j = items'[i].child /\ j # NULL
      BY <2>2
    <3>2. PICK last \in Live : last = items[j].prev /\ items[last].next = NULL /\ P[last] = i
      BY <3>1 DEF Chained
    <3>3. items'[j].prev = last /\ items'[last].next = NULL
      BY <3>1, <3>2
    <3> QED
      BY <3>1, <3>2, <3>3
  <2> QED
    BY <2>1, <2>2
<1>2. \A i \in Live' \ Live : items'[i].next = NULL /\ items'[i].child = NULL
  OBVIOUS
<1> QED
  BY <1>1, <1>2, Zenon DEF Chained

(* What fills in an item or moves on keeps the chains.                      *)
LEMMA ChainedKept ==
    ASSUME Tree, HeapSteps, Kept \/ ~(Start \/ Element \/ Close \/ DeleteItem), deleting = <<>>,
           NEW P \in [Nat -> Nat], Chained(P)
    PROVE  Chained(P)'
<1>1. /\ Live' = Live
      /\ \A i \in Live : /\ items'[i].next = items[i].next /\ items'[i].prev = items[i].prev
                         /\ items'[i].child = items[i].child
  BY LinksKept
<1>2. \A i \in Live : /\ items[i].next # NULL => items[i].next \in Live
                      /\ items[i].child # NULL => items[i].child \in Live
  <2>1. Typed /\ Owned /\ Entered = {}
    BY DEF Tree, Entered
  <2> QED
    BY <2>1, Pointers
<1> QED
  BY <1>1, <1>2, ChainsCarried

(* An element is linked both ways to the one before it, and no list that is *)
(* complete ended there.                                                    *)
LEMMA ChainedElement ==
    ASSUME Tree, Element, ~NoMemory, NEW P \in [Nat -> Nat], Chained(P), Parents(P)
    PROVE  Chained(P)'
<1>1. /\ Typed /\ Owned /\ Growing /\ Nested /\ Cells /\ deleting = <<>> /\ frames # <<>> /\ Parsing
      /\ current \in Live /\ Entered = {}
  <2>1. Typed /\ Owned /\ Growing /\ Nested /\ Cells /\ Parsing /\ pc = "element"
    BY DEF Tree, Typed, Ordered, Element, Parsing
  <2>2. deleting = <<>> /\ frames # <<>>
    BY <2>1 DEF Typed, Freeing, Levels
  <2> QED
    BY <2>1, <2>2 DEF Growing, Entered
<1>2. /\ \A i \in Live : /\ items[i] \in Cell
                         /\ items[i].next # NULL => items[i].next \in Live
                         /\ items[i].child # NULL => items[i].child \in Live
      /\ Fresh \notin Live
  <2>1. Fresh \notin Live
    BY <1>1 DEF Cells, Fresh
  <2> QED
    BY <1>1, <2>1, Elements, Pointers
<1>3. ItemAdded(Top.head # NULL)
  BY <1>1, AddsElement
<1>4. CASE Top.head = NULL
  <2>1. ItemAdded(FALSE)
    BY <1>3, <1>4
  <2>2. /\ Live' = Live \cup {Fresh} /\ items'[Fresh].next = NULL /\ items'[Fresh].child = NULL
        /\ \A i \in Live : items'[i] = items[i]
    BY <2>1 DEF ItemAdded, EmptyItem
  <2> QED
    BY <1>2, <2>2, ChainsCarried
<1>5. CASE Top.head # NULL
  <2>1. ItemAdded(TRUE)
    BY <1>3, <1>5
  <2>2. /\ Live' = Live \cup {Fresh} /\ items'[Fresh] = [EmptyItem EXCEPT !.prev = current]
        /\ \A i \in Live : i # current => items'[i] = items[i]
        /\ items'[current] = [items[current] EXCEPT !.next = Fresh]
    BY <2>1 DEF ItemAdded
  <2>3. /\ items'[Fresh].next = NULL /\ items'[Fresh].child = NULL /\ items'[Fresh].prev = current
        /\ items'[current].next = Fresh
        /\ items'[current].prev = items[current].prev /\ items'[current].child = items[current].child
    BY <1>1, <1>2, <2>2 DEF EmptyItem, Cell
  <2>4. \A i \in Live : /\ items'[i].prev = items[i].prev /\ items'[i].child = items[i].child
                        /\ i # current => items'[i].next = items[i].next
    BY <2>2, <2>3
  <2>5. P[current] = Top.item /\ items[Top.item].child = NULL /\ items[current].next = NULL
    BY <1>1, <1>5, TopFrame DEF Parents, Growing, Top
  <2>6. ASSUME NEW i \in Live, items[i].child # NULL PROVE items[items[i].child].prev # current
    <3>1. P[items[items[i].child].prev] = i
      BY <2>6 DEF Chained
    <3>2. i # Top.item
      BY <2>5, <2>6
    <3> QED
      BY <2>5, <3>1, <3>2
  <2>7. ASSUME NEW i \in Live
        PROVE  /\ items'[i].next # NULL => items'[items'[i].next].prev = i
               /\ items'[i].child # NULL =>
                    /\ items'[items'[i].child].prev \in Live'
                    /\ items'[items'[items'[i].child].prev].next = NULL
                    /\ P[items'[items'[i].child].prev] = i
    <3>1. items'[i].next # NULL => items'[items'[i].next].prev = i
      <4>1. CASE i = current
        BY <2>3, <4>1
      <4>2. CASE i # current
        <5>1. items'[i].next = items[i].next
          BY <2>4, <4>2
        <5> QED
          BY <1>2, <2>4, <5>1 DEF Chained
      <4> QED
        BY <4>1, <4>2
    <3>2. ASSUME items'[i].child # NULL
          PROVE  /\ items'[items'[i].child].prev \in Live'
                 /\ items'[items'[items'[i].child].prev].next = NULL
                 /\ P[items'[items'[i].child].prev] = i
      <4>1. items'[i].child = items[i].child /\ items[i].child # NULL /\ items[i].child \in Live
        BY <1>2, <2>4, <3>2
      <4>2. PICK last \in Live : last = items[items[i].child].prev
        BY <4>1 DEF Chained
      <4>3. items[last].next = NULL /\ P[last] = i
        BY <4>1, <4>2 DEF Chained
      <4>4. items'[items'[i].child].prev = last
        BY <2>4, <4>1, <4>2
      <4>5. items'[last].next = NULL
        BY <2>4, <2>6, <4>1, <4>2, <4>3
      <4> QED
        BY <2>2, <4>3, <4>4, <4>5
    <3> QED
      BY <3>1, <3>2
  <2> QED
    BY <2>2, <2>3, <2>7, Zenon DEF Chained
<1> QED
  BY <1>4, <1>5

(* At the end of a list its head is linked to the last.                     *)
LEMMA ChainedClose ==
    ASSUME Tree, Close, NEW P \in [Nat -> Nat], Chained(P), Parents(P)
    PROVE  Chained(P)'
<1>1. /\ Typed /\ Owned /\ Growing /\ Nested /\ Cells /\ deleting = <<>> /\ frames # <<>> /\ Parsing
      /\ current \in Live /\ Entered = {} /\ items[current].next = NULL
  <2>1. Typed /\ Owned /\ Growing /\ Nested /\ Cells /\ Parsing /\ pc = "close"
    BY DEF Tree, Typed, Ordered, Close, Parsing
  <2>2. deleting = <<>> /\ frames # <<>>
    BY <2>1 DEF Typed, Freeing, Levels
  <2> QED
    BY <2>1, <2>2 DEF Growing, Entered
<1>2. /\ \A i \in Live : /\ items[i] \in Cell
                         /\ items[i].next # NULL => items[i].next \in Live
                         /\ items[i].child # NULL => items[i].child \in Live
  BY <1>1, Elements, Pointers
<1>3. Live' = Live /\ \A i \in Live : items'[i] = Closed(i)
  BY <1>1, ClosesList DEF ListClosed
<1>4. PICK n \in DOMAIN frames : n = Len(frames) /\ Top = frames[n]
  BY <1>1, TopFrame DEF Top
<1>5. /\ Top.item \in Live /\ (Top.head # NULL => Top.head \in Live /\ Top.item # Top.head)
  <2>1. Top.item \in Live /\ (Top.head # NULL => Top.item < Top.head)
    BY <1>1, <1>4, Zenon DEF Nested
  <2>2. Top.item \in Nat
    BY <1>1, <2>1, Elements
  <2>3. Top.head # NULL => Top.head \in Live
    BY <1>1, <1>4, Pointers
  <2> QED
    BY <2>1, <2>2, <2>3
<1>6. \A i \in Live : /\ items'[i].next = items[i].next
                      /\ items'[i].child = IF i = Top.item THEN Top.head ELSE items[i].child
                      /\ i # Top.head => items'[i].prev = items[i].prev
  BY <1>2, <1>3 DEF Closed, Cell
<1>7. Top.head # NULL => items'[Top.head].prev = current
  BY <1>2, <1>3, <1>5 DEF Closed, Cell
<1>8. Top.head # NULL =>
         \A i \in Live : items[i].next # Top.head /\ items[i].child # Top.head
  BY <1>1, <1>4, HeadAlone
<1>9. Top.head # NULL => P[current] = Top.item
  BY <1>1 DEF Parents
<1>10. ASSUME NEW i \in Live
       PROVE  /\ items'[i].next # NULL => items'[items'[i].next].prev = i
              /\ items'[i].child # NULL =>
                    /\ items'[items'[i].child].prev \in Live'
                    /\ items'[items'[items'[i].child].prev].next = NULL
                    /\ P[items'[items'[i].child].prev] = i
  <2>1. ASSUME items'[i].next # NULL PROVE items'[items'[i].next].prev = i
    <3>1. PICK j \in Live : j = items[i].next /\ j = items'[i].next /\ j # NULL
      BY <1>2, <1>6, <2>1
    <3>2. items[j].prev = i
      BY <3>1 DEF Chained
    <3>3. j # Top.head
      BY <1>8, <3>1
    <3> QED
      BY <1>6, <3>1, <3>2, <3>3
  <2>2. CASE i = Top.item /\ items'[i].child # NULL
    <3>1. items'[i].child = Top.head /\ Top.head # NULL
      BY <1>6, <2>2
    <3>2. items'[items'[i].child].prev = current
      BY <1>7, <3>1
    <3> QED
      BY <1>1, <1>3, <1>6, <1>9, <2>1, <2>2, <3>1, <3>2
  <2>3. CASE i # Top.item /\ items'[i].child # NULL
    <3>1. PICK j \in Live : j = items[i].child /\ j = items'[i].child /\ j # NULL
      BY <1>2, <1>6, <2>3
    <3>2. j # Top.head
      BY <1>8, <3>1
    <3>3. PICK last \in Live : last = items[j].prev /\ items[last].next = NULL /\ P[last] = i
      BY <3>1 DEF Chained
    <3>4. items'[j].prev = last /\ items'[last].next = NULL
      BY <1>6, <3>2, <3>3
    <3> QED
      BY <1>3, <2>1, <3>1, <3>3, <3>4
  <2> QED
    BY <2>1, <2>2, <2>3
<1> QED
  BY <1>3, <1>10, Zenon DEF Chained

(* The parents follow the levels.                                           *)
LEMMA ParentsStep ==
    ASSUME Tree, [Next]_vars, NEW P \in [Nat -> Nat], Parents(P),
           frames # <<>> => P[Fresh] = Top.item
    PROVE  Parents(P)'
<1>1. /\ Typed /\ Growing /\ (pc = "start" => frames = <<>>)
      /\ (pc \in {"element", "name", "close"} => frames # <<>>)
  BY DEF Tree, Typed, Levels
<1>2. Parsing => /\ frames # <<>> /\ Top.head # NULL => P[current] = Top.item
                 /\ \A k \in DOMAIN frames : k # 1 => P[frames[k].item] = frames[k - 1].item
  BY DEF Parents
<1>3. ASSUME ~Parsing' PROVE Parents(P)'
  BY <1>3 DEF Parents
<1>4. NoMemory \/ Fail => ~Parsing'
  BY DEF NoMemory, Fail, Parsing
<1>5. CASE Start
  <2>1. CASE ~NoMemory
    <3>1. frames' = <<>>
      BY <1>1, <1>5, <2>1, Zenon DEF Start
    <3>2. DOMAIN frames' = {}
      BY <3>1
    <3> QED
      BY <3>1, <3>2 DEF Parents
  <2> QED
    BY <1>3, <1>4, <2>1
<1>6. CASE Literal \/ parse_number \/ StringValue \/ NoValue \/ Name \/ Return
  <2>1. current' = current /\ frames' = frames
    BY <1>6, Zenon DEF Literal, parse_number, StringValue, NoValue, Name, Return, Parsed, NoMemory, Fail
  <2>2. Parsing /\ Top' = Top
    BY <1>6, <2>1, Zenon DEF Literal, parse_number, StringValue, NoValue, Name, Return, Parsing, Top
  <2> QED
    BY <1>2, <2>1, <2>2 DEF Parents
<1>7. CASE Open
  <2>1. CASE ~Fail
    <3>1. /\ Len(frames') = Len(frames) + 1 /\ Len(frames) \in Nat
          /\ DOMAIN frames' = DOMAIN frames \cup {Len(frames) + 1}
          /\ \A k \in DOMAIN frames : frames'[k] = frames[k]
          /\ frames'[Len(frames) + 1].item = current /\ frames'[Len(frames) + 1].head = NULL
      <4>1. ~(frames' = frames) /\ ~Element /\ ~Close /\ ~Unwind
        <5>1. frames' = Append(frames, [opener |-> Here, item |-> current, head |-> NULL])
          BY <1>7, <2>1, Zenon DEF Open
        <5>2. frames \in Seq(Frame) /\ pc = "value"
          BY <1>1, <1>7, Zenon DEF Typed, Levels, Open
        <5>3. PICK f : f = [opener |-> Here, item |-> current, head |-> NULL]
          OBVIOUS
        <5>4. frames' = Append(frames, f)
          BY <5>1, <5>3, Zenon
        <5>5. frames' # frames
          BY <5>2, <5>4
        <5> QED
          BY <5>2, <5>5, Zenon DEF Element, Close, Unwind
      <4> QED
        BY <1>1, <4>1, FramesStep, Elements, Zenon
    <3>2. Top'.head = NULL
      BY <3>1 DEF Top
    <3>3. PICK n \in Nat : n = Len(frames) /\ DOMAIN frames = 1..n
      BY <1>1, Elements
    <3>4. n # 0 => P[current] = frames[n].item
      <4>1. pc = "value" /\ Parsing
        BY <1>7 DEF Open, Parsing
      <4>2. n # 0 => frames # <<>> /\ Top = frames[n]
        BY <3>3 DEF Top
      <4> QED
        BY <1>1, <1>2, <4>1, <4>2 DEF Growing
    <3>5. Parsing
      BY <1>7 DEF Open, Parsing
    <3>6. ASSUME NEW k \in 1..(n + 1), k # 1 PROVE P[frames'[k].item] = frames'[k - 1].item
      <4>1. k - 1 \in 1..n
        BY <3>6
      <4>2. frames'[k - 1] = frames[k - 1]
        BY <3>1, <3>3, <4>1, Zenon
      <4>3. CASE k = n + 1
        <5>1. n # 0 /\ k - 1 = n
          BY <3>6, <4>3
        <5>2. frames'[k].item = current
          BY <3>1, <3>3, <4>3, Zenon
        <5> QED
          BY <3>4, <4>2, <5>1, <5>2
      <4>4. CASE k # n + 1
        <5>1. k \in 1..n
          BY <4>4
        <5>2. frames'[k] = frames[k] /\ P[frames[k].item] = frames[k - 1].item
          BY <1>2, <3>1, <3>3, <3>5, <3>6, <5>1, Zenon
        <5> QED
          BY <4>2, <5>2
      <4> QED
        BY <4>3, <4>4
    <3>7. ASSUME NEW k \in DOMAIN frames' PROVE k \in 1..(n + 1)
      <4>1. k \in 1..n \/ k = n + 1
        BY <3>1, <3>3, Zenon
      <4> QED
        BY <3>3, <4>1, SMTT(60)
    <3> QED
      BY <3>2, <3>6, <3>7, Zenon DEF Parents
  <2> QED
    BY <1>3, <1>4, <2>1
<1>8. CASE Element
  <2>1. CASE ~NoMemory
    <3>1. frames' = HeadSet /\ current' = Fresh /\ frames # <<>> /\ pc = "element"
      BY <1>1, <1>8, <2>1, Zenon DEF Element, HeadSet
    <3>2. /\ Len(HeadSet) = Len(frames) /\ DOMAIN HeadSet = DOMAIN frames
          /\ \A k \in DOMAIN frames : HeadSet[k].item = frames[k].item
      BY <1>1, <3>1, Headed
    <3>3. PICK n \in Nat \ {0} : n = Len(frames) /\ DOMAIN frames = 1..n /\ Top = frames[n]
      BY <1>1, <3>1, TopFrame, Elements DEF Top
    <3>4. Top'.item = Top.item
      BY <3>1, <3>2, <3>3 DEF Top
    <3>5. Parsing
      BY <3>1 DEF Parsing
    <3>6. ASSUME NEW k \in 1..n, k # 1 PROVE P[HeadSet[k].item] = HeadSet[k - 1].item
      <4>1. k - 1 \in 1..n
        BY <3>6
      <4> QED
        BY <1>2, <3>2, <3>3, <3>5, <3>6, <4>1
    <3> QED
      BY <3>1, <3>2, <3>3, <3>4, <3>6, Zenon DEF Parents
  <2> QED
    BY <1>3, <1>4, <2>1
<1>9. CASE Close
  <2>1. current' = Top.item /\ frames' = Pop /\ frames # <<>> /\ Parsing
    BY <1>1, <1>9, ZenonT(60) DEF Close, Parsing
  <2>2. PICK n \in Nat \ {0} : n = Len(frames) /\ DOMAIN frames = 1..n /\ Top = frames[n]
    BY <1>1, <2>1, TopFrame, Elements DEF Top
  <2>3. /\ Len(Pop) = n - 1 /\ DOMAIN Pop = 1..(n - 1) /\ Pop \in Seq(Frame)
        /\ \A k \in 1..(n - 1) : Pop[k] = frames[k]
    BY <1>1, <2>1, <2>2, Popped
  <2>4. Pop # <<>> => P[Top.item] = Pop[n - 1].item /\ Top' = Pop[n - 1]
    <3>1. CASE Pop # <<>>
      <4>1. n # 1
        <5>1. n = 1 => Len(Pop) = 0
          BY <2>3
        <5> QED
          BY <2>3, <3>1, <5>1
      <4>2. n - 1 \in 1..(n - 1) /\ n \in 1..n
        BY <2>2, <4>1, SMTT(60)
      <4> QED
        BY <1>2, <2>1, <2>2, <2>3, <4>1, <4>2 DEF Top
    <3> QED
      BY <3>1
  <2>5. ASSUME NEW k \in 1..(n - 1), k # 1 PROVE P[Pop[k].item] = Pop[k - 1].item
    <3>1. k - 1 \in 1..(n - 1) /\ k \in 1..n
      BY <2>2, <2>5
    <3> QED
      BY <1>2, <2>1, <2>2, <2>3, <2>5, <3>1
  <2> QED
    BY <2>1, <2>3, <2>4, <2>5, Zenon DEF Parents
<1>10. CASE Unwind \/ SearchOn \/ SearchEnds \/ WalkOn \/ WalkEnds \/ DeleteChildren \/ DeleteItem
            \/ Deleted
  <2>1. ~Parsing'
    BY <1>10 DEF Unwind, SearchOn, SearchEnds, WalkOn, WalkEnds, DeleteChildren, DeleteItem, Deleted,
       Parsing
  <2> QED
    BY <1>3, <2>1
<1>11. CASE UNCHANGED vars
  BY <1>2, <1>11 DEF vars, Parents, Parsing, Top
<1> QED
  BY <1>5, <1>6, <1>7, <1>8, <1>9, <1>10, <1>11, Zenon DEF Next

LEMMA LinkedStep == Tree /\ Linked /\ [Next]_vars => Linked'
<1> SUFFICES ASSUME Tree, Linked, [Next]_vars, pc' \notin {"fail", "delete", "done"}
             PROVE  \E Q \in [Nat -> Nat] : Chained(Q)' /\ Parents(Q)'
  BY DEF Linked
<1>1. pc \notin {"fail", "delete", "done"} /\ ~NoMemory /\ ~Fail /\ ~DeleteItem
  BY Zenon DEF Next, Start, Literal, parse_number, StringValue, NoValue, Open, Element, Name, Return, Close,
     Unwind, SearchOn, SearchEnds, WalkOn, WalkEnds, DeleteChildren, DeleteItem, Deleted, Parsed,
     NoMemory, Fail, vars
<1>2. PICK P \in [Nat -> Nat] : Chained(P) /\ Parents(P)
  BY <1>1 DEF Linked
<1>3. PICK Q \in [Nat -> Nat] : Chained(Q) /\ Parents(Q) /\ (frames # <<>> => Q[Fresh] = Top.item)
  BY <1>2, ParentOfNew
<1>4. Parents(Q)'
  BY <1>3, ParentsStep
<1>5. deleting = <<>> /\ HeapSteps
  <2>1. deleting = <<>>
    BY <1>1 DEF Tree, Typed, Freeing
  <2> QED
    BY <2>1, HeapStep
<1>6. Chained(Q)'
  <2>1. CASE Start
    <3>1. Typed /\ Cells
      BY DEF Tree, Typed
    <3>2. ItemAdded(FALSE)
      BY <1>1, <2>1, <3>1, AddsRoot
    <3>3. /\ Live' = Live \cup {Fresh} /\ items'[Fresh].next = NULL /\ items'[Fresh].child = NULL
          /\ \A i \in Live : items'[i] = items[i]
      BY <3>2 DEF ItemAdded, EmptyItem
    <3>4. \A i \in Live : /\ items[i].next # NULL => items[i].next \in Live
                          /\ items[i].child # NULL => items[i].child \in Live
      <4>1. Owned /\ Entered = {}
        BY <1>5 DEF Tree, Entered
      <4> QED
        BY <3>1, <4>1, Pointers
    <3> QED
      BY <1>3, <3>3, <3>4, ChainsCarried
  <2>2. CASE Element
    BY <1>1, <1>3, <2>2, ChainedElement
  <2>3. CASE Close
    BY <1>3, <2>3, ChainedClose
  <2>4. CASE ~(Start \/ Element \/ Close \/ DeleteItem)
    BY <1>3, <1>5, <2>4, ChainedKept
  <2> QED
    BY <1>1, <2>1, <2>2, <2>3, <2>4
<1> QED
  BY <1>4, <1>6

(* The lists of a parsed text can be walked both ways, and from the first   *)
(* to the last (WellLinked).                                                *)
THEOREM BothWays == Spec => []WellLinked
<1>1. Init => Linked
  <2> SUFFICES ASSUME Init PROVE Linked
    OBVIOUS
  <2>1. Live = {} /\ ~Parsing
    BY DEF Init, Live, Parsing
  <2>2. [i \in Nat |-> 0] \in [Nat -> Nat]
    OBVIOUS
  <2>3. \A P : Chained(P) /\ Parents(P)
    BY <2>1, Zenon DEF Chained, Parents
  <2> QED
    BY <2>2, <2>3, Zenon DEF Linked
<1>2. Linked => WellLinked
  BY DEF Linked, Chained, WellLinked, Childs
<1> QED
  BY <1>1, <1>2, TreeInvariant, LinkedStep, PTL DEF Spec
-----------------------------------------------------------------------------
(* The members of "data". *)

(* A step that forgets what it parses ends the parsing.                     *)
LEMMA GivesUp == NoMemory \/ Fail => pc' = "fail"
BY Zenon DEF NoMemory, Fail

(* The place of the parser in its levels.                                   *)
LEMMA RootedStep == Tree /\ Rooted /\ [Next]_vars => Rooted'
<1> SUFFICES ASSUME Tree, Rooted, [Next]_vars PROVE Rooted'
  OBVIOUS
<1>1. /\ Typed /\ Cells /\ (pc \in {"element", "name", "close"} => frames # <<>>)
      /\ (pc = "start" => frames = <<>>)
  BY DEF Tree, Typed, Levels
<1>2. CASE pc' \in {"fail", "walk", "delete", "done"}
  BY <1>2, Zenon DEF Rooted, Parsing
<1>3. CASE Start /\ ~NoMemory
  <2>1. ItemAdded(FALSE)
    BY <1>1, <1>3, AddsRoot
  <2>2. items'[Fresh] = EmptyItem
    BY <2>1, Zenon DEF ItemAdded
  <2>3. items'[Fresh].type = "none"
    BY <2>2 DEF EmptyItem
  <2>4. /\ pc = "start" /\ pc' = "value" /\ root' = Fresh /\ current' = Fresh /\ frames' = frames
        /\ members' = members
    BY <1>3, Zenon DEF Start
  <2> QED
    BY <1>1, <2>3, <2>4 DEF Rooted, Parsing
<1>4. CASE (Literal \/ parse_number \/ StringValue \/ Return \/ SearchOn \/ UNCHANGED vars)
             /\ ~NoMemory /\ ~Fail
  <2>1. CASE Literal \/ parse_number \/ StringValue
    <3>1. /\ pc = "value" /\ pc' = "return" /\ root' = root /\ current' = current
          /\ frames' = frames /\ members' = members
      BY <1>4, <2>1, Zenon DEF Literal, parse_number, StringValue, Parsed, useVars
    <3> QED
      BY <3>1 DEF Rooted, Parsing
  <2>2. CASE Return
    <3>1. /\ pc = "return" /\ pc' \in {"search", "element", "close", "fail"} /\ root' = root
          /\ current' = current /\ frames' = frames /\ members' = members
      BY <2>2, Zenon DEF Return
    <3> QED
      BY <3>1, Zenon DEF Rooted, Parsing
  <2>3. CASE SearchOn
    <3>1. pc = "search" /\ pc' = "search" /\ members' = members
      BY <2>3, Zenon DEF SearchOn
    <3> QED
      BY <3>1 DEF Rooted, Parsing
  <2>4. CASE UNCHANGED vars
    <3>1. /\ pc' = pc /\ root' = root /\ current' = current /\ frames' = frames /\ members' = members
          /\ items' = items
      BY <2>4, Zenon DEF vars, heapVars, useVars
    <3> QED
      BY <3>1, Zenon DEF Rooted, Parsing, Live, Top
  <2> QED
    BY <1>4, <2>1, <2>2, <2>3, <2>4
<1>5. CASE Open /\ ~Fail
  <2>1. /\ pc = "value" /\ pc' \in {"close", "element"} /\ root' = root /\ current' = current
        /\ members' = members
    BY <1>5, Zenon DEF Open, useVars
  <2>2. PICK f : f = [opener |-> Here, item |-> current, head |-> NULL]
    OBVIOUS
  <2>3. frames' = Append(frames, f) /\ f.item = current /\ frames \in Seq(Frame)
    <3>1. frames' = Append(frames, [opener |-> Here, item |-> current, head |-> NULL])
      BY <1>5, Zenon DEF Open
    <3>2. frames \in Seq(Frame)
      BY <1>1 DEF Typed, Levels
    <3> QED
      BY <2>2, <3>1, <3>2
  <2>4. frames' # <<>> /\ frames'[1] = IF frames = <<>> THEN f ELSE frames[1]
    BY <2>3
  <2> QED
    BY <2>1, <2>3, <2>4, Zenon DEF Rooted, Parsing
<1>6. CASE Element /\ ~NoMemory
  <2>1. /\ pc = "element" /\ frames' = HeadSet /\ root' = root /\ members' = members
        /\ pc' = (IF Top.opener = "[" THEN "value" ELSE "name")
    BY <1>6, Zenon DEF Element, HeadSet, useVars
  <2>2. /\ Len(HeadSet) = Len(frames) /\ Len(frames) \in Nat \ {0} /\ Top \in Frame
        /\ \A k \in DOMAIN frames : /\ HeadSet[k].item = frames[k].item
                                    /\ HeadSet[k].opener = frames[k].opener
        /\ DOMAIN frames = 1..Len(frames)
    BY <1>1, <2>1, Headed, TopFrame, Elements
  <2>3. frames' # <<>> /\ frames'[1].item = frames[1].item /\ Top'.opener = Top.opener
    BY <2>1, <2>2 DEF Top
  <2>4. pc' \in {"value", "name"} /\ (pc' = "name" => Top'.opener = "{")
    BY <2>1, <2>2, <2>3, Zenon DEF Frame
  <2> QED
    BY <1>1, <2>1, <2>3, <2>4, Zenon DEF Rooted, Parsing
<1>7. CASE Name /\ ~NoMemory /\ ~Fail /\ pc' # "fail"
  <2>1. /\ pc = "name" /\ pc' = "value" /\ root' = root /\ current' = current /\ frames' = frames
        /\ members' = members
    BY <1>7, Zenon DEF Name, useVars
  <2> QED
    BY <1>1, <2>1, Zenon DEF Rooted, Parsing
<1>8. CASE Close
  <2>1. /\ pc = "close" /\ pc' = "return" /\ root' = root /\ current' = Top.item /\ frames' = Pop
        /\ members' = members /\ frames # <<>>
    BY <1>1, <1>8, Zenon DEF Close, useVars
  <2>2. IF Pop = <<>> THEN Top = frames[1] ELSE Pop[1] = frames[1]
    BY <1>1, <2>1, FirstStays, Zenon DEF Top
  <2> QED
    BY <2>1, <2>2 DEF Rooted, Parsing
<1>9. NoMemory \/ Fail => pc' = "fail"
  BY GivesUp
<1>10. NoValue \/ Unwind \/ SearchEnds \/ WalkOn \/ WalkEnds \/ DeleteChildren \/ DeleteItem \/ Deleted
         => pc' \in {"fail", "walk", "delete", "done"}
  BY <1>9, Zenon DEF NoValue, Unwind, SearchEnds, WalkOn, WalkEnds, DeleteChildren, DeleteItem, Deleted
<1> QED
  BY <1>2, <1>3, <1>4, <1>5, <1>6, <1>7, <1>8, <1>9, <1>10, Zenon DEF Next

(* A new item is a child of the item whose list is being parsed; the root is *)
(* the child of none.                                                       *)
LEMMA FamilyOfNew ==
    ASSUME Tree, Rooted, NEW P \in [Nat -> Nat],
           Parents(P), Siblings(P), FirstChild(P), NamedAsKind(P), Seeking(P)
    PROVE  \E Q \in [Nat -> Nat] :
              /\ Parents(Q) /\ Siblings(Q) /\ FirstChild(Q) /\ NamedAsKind(Q) /\ Seeking(Q)
              /\ Q[Fresh] = IF frames = <<>> THEN NULL ELSE Top.item
<1>1. /\ Typed /\ Owned /\ Nested /\ allocated \in Nat /\ Live \subseteq 1..allocated
      /\ current \in 0..allocated /\ cursor \in 0..allocated
  BY DEF Tree, Typed, Ordered, Cells, Handles
<1>2. PICK t \in Nat : t = IF frames = <<>> THEN NULL ELSE Top.item
  <2>1. CASE frames = <<>>
    BY <2>1 DEF NULL
  <2>2. CASE frames # <<>>
    BY <1>1, <2>2, TopFrame, Zenon DEF Frame
  <2> QED
    BY <2>1, <2>2
<1> DEFINE Q == [P EXCEPT ![Fresh] = t]
           Old == 0..allocated
<1>3. Fresh = allocated + 1 /\ Fresh \in Nat
  BY <1>1 DEF Fresh
<1>4. Q \in [Nat -> Nat] /\ Q[Fresh] = t /\ \A a \in Old : Q[a] = P[a]
  <2>1. Q \in [Nat -> Nat] /\ Q[Fresh] = t
    BY <1>3
  <2>2. \A a \in Old : a \in Nat /\ a # Fresh
    BY <1>1, <1>3
  <2> QED
    BY <2>1, <2>2
<1>5. Live \subseteq Old /\ current \in Old /\ cursor \in Old
  BY <1>1
<1>6. \A k \in DOMAIN frames : frames[k].item \in Old
  BY <1>1, <1>5, Zenon DEF Nested
<1> HIDE DEF Q, Old
<1>7. Parents(Q)
  BY <1>4, <1>5, <1>6, Zenon DEF Parents
<1>8. Siblings(Q)
  <2>1. \A i \in Live : items[i].next # NULL => items[i].next \in Old
    BY <1>1, <1>5, Pointers, Zenon
  <2> QED
    BY <1>4, <1>5, <2>1, Zenon DEF Siblings
<1>9. FirstChild(Q)
  <2>1. frames # <<>> /\ frames[1].head # NULL => frames[1].head \in Old
    <3> SUFFICES ASSUME frames # <<>>, frames[1].head # NULL PROVE frames[1].head \in Old
      OBVIOUS
    <3>1. 1 \in DOMAIN frames
      BY <1>1, Elements, TopFrame
    <3> QED
      BY <1>1, <1>5, <3>1, Pointers, Zenon
  <2>2. root # NULL => root \in Live /\ items[root].child \in Old
    <3>1. root # NULL => root \in Live
      BY <1>1, Pointers
    <3>2. \A i \in Live : items[i].child \in Old
      <4>1. Cells
        BY DEF Tree, Typed
      <4> QED
        BY <1>1, <4>1, Elements DEF Cells, Cell, Old
    <3> QED
      BY <3>1, <3>2
  <2> QED
    BY <1>4, <2>1, <2>2, Zenon DEF FirstChild
<1>10. NamedAsKind(Q)
  BY <1>4, <1>5, Zenon DEF NamedAsKind
<1>11. Seeking(Q)
  BY <1>4, <1>5, Zenon DEF Seeking
<1> QED
  BY <1>2, <1>4, <1>7, <1>8, <1>9, <1>10, <1>11, Zenon

(* A step of the parser, or of the search, that goes on.                     *)
GoesOn == pc' \notin {"fail", "delete", "done"}

LEMMA WentOn ==
    ASSUME [Next]_vars, GoesOn
    PROVE  /\ pc \notin {"fail", "delete", "done"} /\ ~NoMemory /\ ~Fail /\ ~DeleteItem
           /\ root' # root => Start
BY Zenon DEF GoesOn, Next, Start, Literal, parse_number, StringValue, NoValue, Open, Element, Name, Return,
   Close, Unwind, SearchOn, SearchEnds, WalkOn, WalkEnds, DeleteChildren, DeleteItem, Deleted, Parsed,
   NoMemory, Fail, vars, useVars

(* An element's siblings are those of the item before it.                   *)
LEMMA SiblingsStep ==
    ASSUME Tree, Rooted, HeapSteps, [Next]_vars, GoesOn, NEW P \in [Nat -> Nat],
           Parents(P), Siblings(P), P[Fresh] = IF frames = <<>> THEN NULL ELSE Top.item
    PROVE  Siblings(P)'
<1>1. /\ Typed /\ Cells /\ Growing /\ (pc \in {"element", "close"} => frames # <<>>)
      /\ (pc = "start" => Live = {})
  BY Zenon DEF Tree, Typed, Levels, Rooted
<1>2. ~NoMemory /\ ~DeleteItem
  BY WentOn
<1>3. CASE Start
  <2>1. ItemAdded(FALSE) /\ Live = {}
    BY <1>1, <1>2, <1>3, AddsRoot DEF Start
  <2>2. Live' = {Fresh} /\ items'[Fresh] = EmptyItem
    BY <2>1 DEF ItemAdded
  <2> QED
    BY <2>2 DEF Siblings, EmptyItem
<1>4. CASE Element
  <2>1. ItemAdded(Top.head # NULL) /\ current \in Live /\ Parsing
    BY <1>1, <1>2, <1>4, AddsElement DEF Element, Growing, Parsing
  <2>2. CASE Top.head = NULL
    <3>1. /\ Live' = Live \cup {Fresh} /\ items'[Fresh] = EmptyItem
          /\ \A i \in Live : items'[i] = items[i]
      BY <2>1, <2>2 DEF ItemAdded
    <3>2. items'[Fresh].next = NULL
      BY <3>1 DEF EmptyItem
    <3> QED
      BY <3>1, <3>2, Zenon DEF Siblings
  <2>3. CASE Top.head # NULL
    <3>1. /\ Live' = Live \cup {Fresh} /\ items'[Fresh] = [EmptyItem EXCEPT !.prev = current]
          /\ \A i \in Live : i # current => items'[i] = items[i]
          /\ items'[current] = [items[current] EXCEPT !.next = Fresh]
      BY <2>1, <2>3 DEF ItemAdded
    <3>2. items'[Fresh].next = NULL /\ items'[current].next = Fresh
      <4>1. items[current] \in Cell
        BY <1>1, <2>1, Elements
      <4> QED
        BY <3>1, <4>1 DEF EmptyItem, Cell
    <3>3. P[current] = Top.item /\ P[Fresh] = Top.item
      BY <1>1, <1>4, <2>1, <2>3, Zenon DEF Parents, Element
    <3> QED
      BY <3>1, <3>2, <3>3, Zenon DEF Siblings
  <2> QED
    BY <2>2, <2>3
<1>5. CASE Close
  <2>1. Live' = Live /\ \A i \in Live : items'[i] = Closed(i)
    BY <1>1, <1>5, ClosesList DEF Growing, Parsing, Close, ListClosed
  <2>2. \A i \in Live : items'[i].next = items[i].next
    BY <1>1, <2>1, Elements DEF Closed, Cell
  <2> QED
    BY <2>1, <2>2, Zenon DEF Siblings
<1>6. CASE ~(Start \/ Element \/ Close)
  <2>1. Live' = Live /\ \A i \in Live : items'[i].next = items[i].next
    BY <1>2, <1>6, LinksKept
  <2> QED
    BY <2>1, Zenon DEF Siblings
<1> QED
  BY <1>3, <1>4, <1>5, <1>6

(* The root's list is parsed on the first level only.                       *)
LEMMA RootsLevel ==
    ASSUME Tree, Rooted, Parsing, frames # <<>>, Top.item = root
    PROVE  Top = frames[1] /\ Len(frames) = 1
<1>1. PICK n \in Nat \ {0} : n = Len(frames) /\ DOMAIN frames = 1..n /\ Top = frames[n]
  BY Elements, TopFrame DEF Top, Tree
<1>2. frames[1].item = root
  BY Zenon DEF Rooted
<1>3. root \in Nat
  <2>1. root \in 0..allocated /\ allocated \in Nat
    BY Zenon DEF Tree, Typed, Handles, Cells
  <2> QED
    BY <2>1
<1>4. \A j, k \in DOMAIN frames : j < k => frames[j].item < frames[k].item
  <2>1. Nested
    BY DEF Tree, Ordered
  <2> QED
    BY <2>1, Zenon DEF Nested
<1>5. n = 1
  <2> SUFFICES ASSUME n # 1 PROVE FALSE
    OBVIOUS
  <2>1. 1 \in DOMAIN frames /\ n \in DOMAIN frames /\ 1 < n
    BY <1>1
  <2>2. frames[1].item < frames[n].item
    BY <1>4, <2>1, Zenon
  <2> QED
    BY <1>1, <1>2, <1>3, <2>2
<1> QED
  BY <1>1, <1>5, SMTT(60)

(* A list is hung on its item when it is complete: the root gets that of the *)
(* first level.                                                             *)
LEMMA FirstChildStep ==
    ASSUME Tree, Rooted, HeapSteps, [Next]_vars, GoesOn, NEW P \in [Nat -> Nat],
           FirstChild(P), P[Fresh] = IF frames = <<>> THEN NULL ELSE Top.item
    PROVE  FirstChild(P)'
<1>1. /\ Typed /\ Cells /\ Growing /\ (pc \in {"element", "close"} => frames # <<>>)
      /\ (pc = "start" => Live = {} /\ frames = <<>>) /\ Owned
      /\ (Parsing => IF frames = <<>> THEN current = root ELSE frames[1].item = root)
  BY Zenon DEF Tree, Typed, Levels, Rooted
<1>2. ~NoMemory /\ ~DeleteItem /\ ~Fail /\ (root' # root => Start)
  BY WentOn, SMTT(60)
<1>3. PICK n \in Nat : n = Len(frames) /\ DOMAIN frames = 1..n /\ (frames # <<>> => n # 0 /\ Top = frames[n])
  BY <1>1, Elements, TopFrame DEF Top
<1>4. root # NULL => root \in Live
  BY <1>1, Pointers
<1>5. CASE Start
  <2>1. ItemAdded(FALSE) /\ frames' = frames /\ root' = Fresh /\ frames = <<>>
    BY <1>1, <1>2, <1>5, AddsRoot DEF Start
  <2>2. items'[Fresh] = EmptyItem
    BY <2>1, Zenon DEF ItemAdded
  <2> QED
    BY <2>1, <2>2 DEF FirstChild, EmptyItem
<1>6. CASE Element
  <2>1. /\ ItemAdded(Top.head # NULL) /\ current \in Live /\ frames' = HeadSet /\ frames # <<>>
        /\ root' = root /\ Parsing
    BY <1>1, <1>2, <1>6, AddsElement DEF Element, Growing, Parsing, HeadSet, useVars
  <2>2. \A i \in Live : items'[i].child = items[i].child
    <3>1. \A i \in Live : /\ i # current => items'[i] = items[i]
                          /\ items'[current] = items[current]
                               \/ items'[current] = [items[current] EXCEPT !.next = Fresh]
      BY <2>1, Zenon DEF ItemAdded
    <3> QED
      BY <1>1, <2>1, <3>1, Elements DEF Cell
  <2>3. /\ Len(HeadSet) = n /\ (n # 1 => HeadSet[1].head = frames[1].head)
        /\ HeadSet[n].head = IF Top.head = NULL THEN Fresh ELSE Top.head
    BY <1>1, <1>3, <2>1, Headed, SMTT(60)
  <2>4. HeadSet[1].head # NULL => P[HeadSet[1].head] = root
    <3>1. CASE n # 1
      BY <2>1, <2>3, <3>1, Zenon DEF FirstChild
    <3>2. CASE n = 1
      <4>1. P[Fresh] = Top.item /\ Top = frames[1] /\ frames[1].item = root
        BY <1>1, <1>3, <2>1, <3>2
      <4> QED
        BY <2>1, <2>3, <3>2, <4>1 DEF FirstChild
    <3> QED
      BY <3>1, <3>2
  <2>5. root # NULL /\ items'[root].child # NULL => P[items'[root].child] = root
    BY <1>4, <2>2, Zenon DEF FirstChild
  <2> QED
    BY <2>1, <2>4, <2>5, Zenon DEF FirstChild
<1>7. CASE Close
  <2>1. /\ \A i \in Live : items'[i] = Closed(i)
        /\ frames' = Pop /\ frames # <<>> /\ root' = root /\ Parsing
    BY <1>1, <1>7, ClosesList DEF Growing, Parsing, Close, ListClosed, useVars
  <2>2. \A i \in Live : items'[i].child = IF i = Top.item THEN Top.head ELSE items[i].child
    BY <1>1, <2>1, Elements DEF Closed, Cell
  <2>4. Pop # <<>> => Pop[1] = frames[1]
    BY <1>1, <2>1, FirstStays, Zenon
  <2>5. root = Top.item => Top = frames[1]
    BY <2>1, RootsLevel
  <2>6. root # NULL /\ items'[root].child # NULL => P[items'[root].child] = root
    BY <1>4, <2>1, <2>2, <2>5, Zenon DEF FirstChild
  <2>7. Pop # <<>> /\ Pop[1].head # NULL => P[Pop[1].head] = root
    BY <2>1, <2>4, Zenon DEF FirstChild
  <2> QED
    BY <2>1, <2>6, <2>7, Zenon DEF FirstChild
<1>8. CASE ~(Start \/ Element \/ Close)
  <2>1. \A i \in Live : items'[i].child = items[i].child
    BY <1>2, <1>8, LinksKept
  <2>2. root' = root
    BY <1>2, <1>8
  <2>3. root # NULL /\ items'[root].child # NULL => P[items'[root].child] = root
    BY <1>4, <2>1, Zenon DEF FirstChild
  <2>4. CASE Open
    <3>1. frames' = Append(frames, [opener |-> Here, item |-> current, head |-> NULL])
      BY <1>2, <2>4, Zenon DEF Open
    <3>2. PICK f : f = [opener |-> Here, item |-> current, head |-> NULL]
      OBVIOUS
    <3>3. frames' = Append(frames, f) /\ f.head = NULL /\ frames \in Seq(Frame)
      BY <1>1, <3>1, <3>2 DEF Typed, Levels
    <3>4. frames'[1] = IF frames = <<>> THEN f ELSE frames[1]
      BY <3>3, SMTT(60)
    <3> QED
      BY <2>2, <2>3, <3>3, <3>4, Zenon DEF FirstChild
  <2>5. CASE ~Open
    <3>1. frames' = frames \/ Unwind
      BY <1>2, <1>8, <2>5, FramesStep, Zenon
    <3>2. ~Unwind
      BY DEF Unwind, GoesOn
    <3> QED
      BY <2>2, <2>3, <3>1, <3>2, Zenon DEF FirstChild
  <2> QED
    BY <2>4, <2>5
<1> QED
  BY <1>5, <1>6, <1>7, <1>8

(* What the step does to an item's name: only Name gives one.               *)
LEMMA NamesStep ==
    ASSUME Tree, HeapSteps, [Next]_vars, GoesOn
    PROVE  /\ \A i \in Live : i # current \/ ~Name => items'[i].string = items[i].string
           /\ Name => items'[current].string # NULL
<1>1. Typed /\ Growing /\ allocated \in Nat /\ (pc \in {"element", "close"} => frames # <<>>) /\ Cells
  BY DEF Tree, Typed, Levels, Cells
<1>2. ~NoMemory /\ ~DeleteItem /\ ~Fail
  BY WentOn
<1>3. \A i \in Live : items[i] \in Cell
  BY <1>1, Elements
<1>4. CASE Name
  <2>1. items' = [items EXCEPT ![current].type = "string", ![current].string = Fresh]
    BY <1>2, <1>4, Zenon DEF Name
  <2>2. Fresh # NULL
    BY <1>1 DEF Fresh, NULL
  <2>3. current \in Live
    BY <1>1, <1>4 DEF Name, Growing, Parsing
  <2>4. items \in [Live -> Cell]
    BY <1>1 DEF Cells
  <2> QED
    BY <2>1, <2>2, <2>3, <2>4 DEF Cell
<1>5. CASE Literal \/ parse_number \/ StringValue
  <2>1. current \in Live
    BY <1>1, <1>5, Zenon DEF Literal, parse_number, StringValue, Growing, Parsing
  <2>2. items \in [Live -> Cell]
    BY <1>1 DEF Cells
  <2>3. CASE Literal \/ parse_number
    <3>1. PICK t, v : items' = [items EXCEPT ![current].type = t, ![current].value = v]
      BY <1>2, <2>3, Zenon DEF Literal, parse_number, Parsed
    <3> QED
      BY <1>4, <2>1, <2>2, <3>1 DEF Cell
  <2>4. CASE StringValue
    <3>1. items' = [items EXCEPT ![current].type = "string", ![current].valuestring = Fresh]
      BY <1>2, <2>4, Zenon DEF StringValue
    <3> QED
      BY <1>4, <2>1, <2>2, <3>1 DEF Cell
  <2> QED
    BY <1>5, <2>3, <2>4
<1>6. CASE Start \/ Element
  <2>1. CASE Start
    <3>1. ItemAdded(FALSE)
      BY <1>1, <1>2, <2>1, AddsRoot
    <3> QED
      BY <1>4, <3>1 DEF ItemAdded
  <2>2. CASE Element
    <3>1. ItemAdded(Top.head # NULL) /\ current \in Live
      BY <1>1, <1>2, <2>2, AddsElement DEF Element, Growing, Parsing
    <3>2. \A i \in Live : /\ i # current => items'[i] = items[i]
                          /\ items'[current] = items[current]
                               \/ items'[current] = [items[current] EXCEPT !.next = Fresh]
      BY <3>1, Zenon DEF ItemAdded
    <3> QED
      BY <1>3, <1>4, <3>1, <3>2 DEF Cell
  <2> QED
    BY <1>6, <2>1, <2>2
<1>7. CASE Close
  <2>1. \A i \in Live : items'[i] = Closed(i)
    BY <1>1, <1>7, ClosesList DEF Growing, Parsing, Close, ListClosed
  <2> QED
    BY <1>3, <1>4, <2>1 DEF Closed, Cell
<1>8. CASE NoValue \/ Open \/ Return \/ Unwind \/ SearchOn \/ SearchEnds \/ WalkOn \/ WalkEnds
           \/ DeleteChildren \/ Deleted \/ UNCHANGED vars
  <2>1. items' = items
    BY <1>2, <1>8, Zenon DEF NoValue, Open, Return, Unwind, SearchOn, SearchEnds, WalkOn,
       WalkEnds, DeleteChildren, Deleted, vars, heapVars
  <2> QED
    BY <1>4, <2>1
<1> QED
  BY <1>2, <1>4, <1>5, <1>6, <1>7, <1>8, Zenon DEF Next

(* The kind of a root that has a list does not change.                       *)
LEMMA KindStep ==
    ASSUME Tree, Rooted, HeapSteps, [Next]_vars, GoesOn, ~Start,
           frames # <<>> \/ items[root].type \in DOMAIN Closer
    PROVE  RootKind' = RootKind
<1>1. /\ Typed /\ Growing /\ (pc \in {"element", "name", "close"} => frames # <<>>)
      /\ (Parsing => IF frames = <<>> THEN current = root ELSE frames[1].item = root)
      /\ (pc = "value" /\ frames = <<>> => items[root].type = "none")
  BY Zenon DEF Tree, Typed, Levels, Rooted
<1>2. ~NoMemory /\ ~DeleteItem /\ ~Fail /\ root' = root /\ ~Unwind
  BY WentOn, SMTT(60) DEF Unwind, GoesOn
<1>3. PICK n \in Nat : n = Len(frames) /\ DOMAIN frames = 1..n /\ (frames # <<>> => n # 0 /\ Top = frames[n])
  BY <1>1, Elements, TopFrame DEF Top
<1>4. pc = "value" => frames # <<>>
  BY <1>1, Zenon DEF Closer
<1>5. CASE Open
  <2>1. frames' = Append(frames, [opener |-> Here, item |-> current, head |-> NULL]) /\ pc = "value"
    BY <1>2, <1>5, Zenon DEF Open
  <2>2. PICK f : f = [opener |-> Here, item |-> current, head |-> NULL]
    OBVIOUS
  <2>3. frames' = Append(frames, f) /\ frames \in Seq(Frame)
    BY <1>1, <2>1, <2>2 DEF Typed, Levels
  <2>4. frames' # <<>> /\ frames'[1] = frames[1] /\ frames # <<>>
    BY <1>4, <2>1, <2>3
  <2> QED
    BY <2>4, Zenon DEF RootKind
<1>6. CASE Element
  <2>1. frames' = HeadSet /\ frames # <<>>
    BY <1>1, <1>2, <1>6, Zenon DEF Element, HeadSet
  <2>2. Len(HeadSet) = n /\ n # 0 /\ HeadSet[1].opener = frames[1].opener
    <3>1. 1 \in DOMAIN frames
      BY <1>3, <2>1
    <3> QED
      BY <1>1, <1>3, <2>1, <3>1, Headed
  <2>3. HeadSet # <<>>
    BY <2>2
  <2> QED
    BY <2>1, <2>2, <2>3, Zenon DEF RootKind
<1>7. CASE Close
  <2>1. /\ \A i \in Live : items'[i] = Closed(i)
        /\ frames' = Pop /\ frames # <<>> /\ Parsing
    BY <1>1, <1>7, ClosesList DEF Growing, Parsing, Close, ListClosed
  <2>2. IF Pop = <<>> THEN n = 1 ELSE Pop[1] = frames[1]
    BY <1>1, <1>3, <2>1, FirstStays, Zenon
  <2>3. CASE Pop = <<>>
    <3>1. n = 1
      BY <2>2, <2>3, Zenon
    <3>2. Top = frames[1] /\ Top.item = root
      BY <1>1, <1>3, <2>1, <3>1
    <3>3. root \in Live /\ items[root] \in Cell
      <4>1. root \in Live
        BY <1>1, <2>1, Pointers DEF Tree, Typed, Handles
      <4> QED
        BY <1>1, <4>1, Elements
    <3>4. items'[root].type = Top.opener
      BY <2>1, <3>2, <3>3 DEF Closed, Cell
    <3> QED
      BY <1>2, <2>1, <2>3, <3>2, <3>4, Zenon DEF RootKind
  <2>4. CASE Pop # <<>>
    <3>1. Pop[1] = frames[1]
      BY <2>2, <2>4, Zenon
    <3> QED
      BY <2>1, <2>4, <3>1, Zenon DEF RootKind
  <2> QED
    BY <2>3, <2>4
<1>8. CASE ~(Open \/ Element \/ Close)
  <2>1. frames' = frames
    BY <1>2, <1>8, FramesStep, Zenon
  <2>2. CASE frames # <<>>
    BY <2>1, <2>2, Zenon DEF RootKind
  <2>3. CASE frames = <<>>
    <3>1. items' = items
      <4>1. ~Literal /\ ~parse_number /\ ~StringValue /\ ~Name
        BY <1>1, <1>4, <2>3, Zenon DEF Literal, parse_number, StringValue, Name
      <4> QED
        BY <1>2, <1>8, <4>1, Zenon DEF Next, NoValue, Return, SearchOn, SearchEnds, WalkOn,
           WalkEnds, DeleteChildren, Deleted, vars, heapVars
    <3> QED
      BY <1>2, <2>1, <3>1, Zenon DEF RootKind
  <2> QED
    BY <2>2, <2>3
<1> QED
  BY <1>5, <1>6, <1>7, <1>8

(* The name of a child of the root is there as soon as it has been parsed.   *)
LEMMA NamedAsKindStep ==
    ASSUME Tree, Rooted, HeapSteps, [Next]_vars, GoesOn, NEW P \in [Nat -> Nat], Parents(P),
           NamedAsKind(P), P[Fresh] = IF frames = <<>> THEN NULL ELSE Top.item
    PROVE  NamedAsKind(P)'
<1>1. /\ Typed /\ Growing /\ Cells /\ allocated \in Nat /\ Live \subseteq 1..allocated
      /\ (pc \in {"element", "name", "close"} => frames # <<>>)
      /\ (pc = "start" => Live = {} /\ frames = <<>>)
      /\ (pc = "name" => Top.opener = "{")
  BY Zenon DEF Tree, Typed, Levels, Rooted, Cells
<1>2. ~NoMemory /\ ~DeleteItem /\ ~Fail /\ (root' # root => Start)
  BY WentOn
<1>3. PICK new : new = Fresh /\ new \notin Live /\ new # NULL
  <2>1. Fresh \notin 1..allocated /\ Fresh # NULL
    <3>1. allocated \in Nat
      BY <1>1, Zenon
    <3> QED
      BY <3>1 DEF Fresh, NULL
  <2> QED
    BY <1>1, <2>1, Zenon
<1>4. CASE Start
  <2>1. ItemAdded(FALSE) /\ root' = new /\ Live = {} /\ frames = <<>>
    BY <1>1, <1>2, <1>3, <1>4, AddsRoot DEF Start
  <2>2. Live' = {new} /\ P[new] = NULL
    BY <1>3, <2>1 DEF ItemAdded
  <2> QED
    BY <1>3, <2>1, <2>2, Zenon DEF NamedAsKind
<1>5. ASSUME ~Start, NEW i \in Live, P[i] = root
      PROVE  /\ RootKind' = RootKind /\ RootKind \in DOMAIN Closer
             /\ Named(i) <=> RootKind = "{" /\ ~(pc = "name" /\ i = current)
  <2>1. /\ RootKind \in DOMAIN Closer
        /\ Named(i) <=> RootKind = "{" /\ ~(pc = "name" /\ i = current)
    BY <1>5, Zenon DEF NamedAsKind
  <2>2. frames # <<>> \/ items[root].type \in DOMAIN Closer
    BY <2>1, Zenon DEF RootKind
  <2> QED
    BY <1>5, <2>1, <2>2, KindStep, Zenon
<1>6. CASE Name
  <2>1. Live' = Live /\ ~Start /\ root' = root /\ pc' # "name" /\ pc = "name"
    <3>1. pc = "name" /\ pc' # "name" /\ ~Start /\ ~Element /\ ~Close
      BY <1>2, <1>6 DEF Name, Start, Element, Close
    <3> QED
      BY <1>2, <3>1, LinksKept
  <2>2. ASSUME P[current] = root PROVE RootKind = "{"
    <3>1. frames # <<>> /\ Parsing /\ Top.head # NULL
      BY <1>1, <2>1, Zenon DEF Growing, Parsing
    <3>2. Top.item = root
      BY <2>2, <3>1 DEF Parents
    <3>3. Top = frames[1]
      BY <3>1, <3>2, RootsLevel
    <3> QED
      BY <1>1, <2>1, <3>1, <3>3, Zenon DEF RootKind
  <2>3. /\ \A i \in Live : i # current => items'[i].string = items[i].string
        /\ items'[current].string # NULL
    BY <1>6, NamesStep, Zenon
  <2>4. ASSUME NEW i \in Live, P[i] = root
        PROVE  RootKind' \in DOMAIN Closer /\ (Named(i)' <=> RootKind' = "{")
    <3>1. /\ RootKind' = RootKind /\ RootKind \in DOMAIN Closer
          /\ Named(i) <=> RootKind = "{" /\ ~(pc = "name" /\ i = current)
      BY <1>5, <2>1, <2>4, Zenon
    <3>2. CASE i = current
      BY <2>2, <2>3, <2>4, <3>1, <3>2, Zenon DEF Named
    <3>3. CASE i # current
      BY <2>3, <3>1, <3>3, Zenon DEF Named
    <3> QED
      BY <3>2, <3>3, Zenon
  <2> QED
    BY <2>1, <2>4, Zenon DEF NamedAsKind
<1>7. CASE Element
  <2>1. /\ ItemAdded(Top.head # NULL) /\ current' = new /\ frames' = HeadSet /\ frames # <<>>
        /\ root' = root /\ Parsing /\ pc = "element"
        /\ pc' = (IF Top.opener = "[" THEN "value" ELSE "name")
    BY <1>1, <1>2, <1>3, <1>7, AddsElement DEF Element, Growing, Parsing, HeadSet, useVars
  <2>2. Live' = Live \cup {new} /\ ~Start /\ ~Name
    BY <1>3, <2>1 DEF ItemAdded, Start, Name
  <2>3. items'[new].string = NULL
    <3>1. items'[new] = EmptyItem \/ items'[new] = [EmptyItem EXCEPT !.prev = current]
      BY <1>3, <2>1, Zenon DEF ItemAdded
    <3> QED
      BY <3>1 DEF EmptyItem
  <2>4. \A i \in Live : items'[i].string = items[i].string
    BY <2>2, NamesStep, Zenon
  <2>5. ASSUME NEW i \in Live, P[i] = root
        PROVE  /\ RootKind' \in DOMAIN Closer
               /\ Named(i)' <=> RootKind' = "{" /\ ~(pc' = "name" /\ i = current')
    <3>1. /\ RootKind' = RootKind /\ RootKind \in DOMAIN Closer
          /\ Named(i) <=> RootKind = "{" /\ ~(pc = "name" /\ i = current)
      BY <1>5, <2>2, <2>5, Zenon
    <3>2. pc # "name"
      BY <2>1
    <3>3. i # current'
      BY <1>3, <2>1
    <3> QED
      BY <2>4, <3>1, <3>2, <3>3, Zenon DEF Named
  <2>6. ASSUME P[new] = root
        PROVE  /\ RootKind' \in DOMAIN Closer
               /\ Named(new)' <=> RootKind' = "{" /\ ~(pc' = "name" /\ new = current')
    <3>1. Top.item = root
      BY <1>3, <2>1, <2>6, Zenon
    <3>2. Top = frames[1] /\ Top \in Frame
      BY <1>1, <2>1, <3>1, RootsLevel, TopFrame
    <3>3. RootKind' = RootKind
      BY <2>1, <2>2, KindStep, Zenon
    <3>4. RootKind = Top.opener
      BY <2>1, <3>2, Zenon DEF RootKind
    <3>5. RootKind' \in {"[", "{"} /\ DOMAIN Closer = {"[", "{"}
      BY <3>2, <3>3, <3>4, Zenon DEF Frame, Closer
    <3>6. ~Named(new)'
      BY <2>3 DEF Named
    <3>7. RootKind' = "{" => pc' = "name" /\ new = current'
      BY <2>1, <3>3, <3>4, Zenon
    <3> QED
      BY <3>5, <3>6, <3>7, Zenon
  <2> QED
    BY <2>1, <2>2, <2>5, <2>6, Zenon DEF NamedAsKind
<1>8. CASE ~(Start \/ Name \/ Element)
  <2>1. Live' = Live /\ root' = root
    <3>1. CASE Close
      BY <1>1, <1>2, <1>8, <3>1, ClosesList DEF Growing, Parsing, Close, ListClosed
    <3>2. CASE ~Close
      BY <1>2, <1>8, <3>2, LinksKept
    <3> QED
      BY <3>1, <3>2
  <2>2. \A i \in Live : items'[i].string = items[i].string
    BY <1>8, NamesStep, Zenon
  <2>3. (pc' = "name" <=> pc = "name") /\ (pc = "name" => current' = current)
    BY <1>2, <1>8, Zenon DEF Next, Literal, parse_number, StringValue, NoValue, Open, Return, Close, Unwind,
       SearchOn, SearchEnds, WalkOn, WalkEnds, DeleteChildren, DeleteItem, Deleted, Parsed, vars
  <2>4. ASSUME NEW i \in Live, P[i] = root
        PROVE  /\ RootKind' \in DOMAIN Closer
               /\ Named(i)' <=> RootKind' = "{" /\ ~(pc' = "name" /\ i = current')
    <3>1. /\ RootKind' = RootKind /\ RootKind \in DOMAIN Closer
          /\ Named(i) <=> RootKind = "{" /\ ~(pc = "name" /\ i = current)
      BY <1>5, <1>8, <2>4, Zenon
    <3> QED
      BY <2>2, <2>3, <3>1, Zenon DEF Named
  <2> QED
    BY <2>1, <2>4, Zenon DEF NamedAsKind
<1> QED
  BY <1>4, <1>6, <1>7, <1>8

(* What GetObjectItem has passed is not named "data", and it stays among the *)
(* root's children.                                                         *)
LEMMA SeekingStep ==
    ASSUME Tree, HeapSteps, [Next]_vars, GoesOn, NEW P \in [Nat -> Nat],
           Siblings(P), FirstChild(P), Seeking(P)
    PROVE  Seeking(P)'
<1>1. Typed /\ Owned
  BY DEF Tree, Typed
<1>2. CASE pc' # "search"
  BY <1>2 DEF Seeking
<1>3. CASE Return /\ pc' = "search"
  <2>1. /\ cursor' = items[root].child /\ items' = items /\ strings' = strings /\ root' = root
        /\ pc = "return"
    BY <1>3, Zenon DEF Return, heapVars
  <2>2. root # NULL
    BY <1>1, <2>1 DEF Typed, Handles, Parsing
  <2>3. cursor' # NULL => P[cursor'] = root'
    BY <2>1, <2>2, Zenon DEF FirstChild
  <2>4. Passed(cursor, Childs(root))'
    <3>1. {} \in SUBSET Live' /\ Childs(root)' \in {} \cup {cursor'}
      BY <2>1 DEF Childs
    <3> QED
      BY <3>1, Zenon DEF Passed
  <2> QED
    BY <2>3, <2>4 DEF Seeking
<1>4. CASE SearchOn
  <2>1. /\ pc = "search" /\ cursor # NULL /\ Named(cursor) /\ ~IsData(cursor)
        /\ cursor' = items[cursor].next /\ items' = items /\ strings' = strings /\ root' = root
    BY <1>4, Zenon DEF SearchOn, Following, heapVars
  <2>2. PICK before \in SUBSET Live :
           /\ Childs(root) \in before \cup {cursor}
           /\ \A j \in before : ~NamedData(j) /\ items[j].next \in before \cup {cursor}
    BY <2>1 DEF Seeking, Passed
  <2>3. cursor \in Live /\ P[cursor] = root /\ ~NamedData(cursor)
    BY <1>1, <2>1 DEF Typed, Handles, Seeking, NamedData, IsData, Named
  <2>4. before \cup {cursor} \in SUBSET Live'
    BY <2>1, <2>3 DEF Live
  <2>5. /\ Childs(root)' \in (before \cup {cursor}) \cup {cursor'}
        /\ \A j \in before \cup {cursor} :
              ~NamedData(j)' /\ items'[j].next \in (before \cup {cursor}) \cup {cursor'}
    BY <2>1, <2>2, <2>3 DEF Childs, NamedData
  <2>6. Passed(cursor, Childs(root))'
    BY <2>4, <2>5, Zenon DEF Passed
  <2>7. cursor' # NULL => P[cursor'] = root'
    BY <2>1, <2>3, Zenon DEF Siblings
  <2> QED
    BY <2>6, <2>7 DEF Seeking
<1>5. CASE UNCHANGED vars
  <2>1. /\ cursor' = cursor /\ items' = items /\ strings' = strings /\ root' = root /\ pc' = pc
    BY <1>5, Zenon DEF vars, heapVars, useVars
  <2> QED
    BY <2>1 DEF Seeking, Passed, Childs, NamedData, Live
<1>6. pc' = "search" => Return \/ SearchOn \/ UNCHANGED vars
  BY DEF Next, Start, Literal, parse_number, StringValue, NoValue, Open, Element, Name, Return, Close,
     Unwind, SearchOn, SearchEnds, WalkOn, WalkEnds, DeleteChildren, DeleteItem, Deleted, Parsed,
     NoMemory, Fail
<1> QED
  BY <1>2, <1>3, <1>4, <1>5, <1>6

(* One more of the list has been met.                                       *)
LEMMA MetOneMore ==
    ASSUME NEW s \in Seq(Nat), NEW i, NEW c \in Nat, c # NULL, Met(s, i, c)
    PROVE  Met(Append(s, c), i, items[c].next)
<1>1. PICK n \in Nat : n = Len(s)
  OBVIOUS
<1> DEFINE t == Append(s, c)
<1>2. /\ Len(t) = n + 1 /\ t[n + 1] = c /\ t[Len(t)] = c
      /\ \A k \in 1..n : t[k] = s[k]
  BY <1>1
<1> HIDE DEF t
<1>3. CASE s = <<>> /\ c = i
  <2>1. n = 0
    BY <1>1, <1>3
  <2> QED
    BY <1>2, <1>3, <2>1 DEF Met
<1>4. CASE /\ i # NULL /\ Len(s) > 0 /\ s[1] = i /\ items[s[Len(s)]].next = c
           /\ \A k \in 1..(Len(s) - 1) : items[s[k]].next = s[k + 1]
  <2>1. n > 0 /\ t[1] = i /\ items[t[Len(t)]].next = items[c].next /\ Len(t) > 0
    BY <1>1, <1>2, <1>4
  <2>2. ASSUME NEW k \in 1..(Len(t) - 1) PROVE items[t[k]].next = t[k + 1]
    <3>1. k \in 1..n /\ t[k] = s[k]
      BY <1>2, <2>2
    <3>2. CASE k = n
      BY <1>1, <1>2, <1>4, <3>1, <3>2
    <3>3. CASE k # n
      <4>1. k \in 1..(n - 1) /\ k + 1 \in 1..n
        BY <3>1, <3>3
      <4> QED
        BY <1>1, <1>2, <1>4, <3>1, <4>1
    <3> QED
      BY <3>2, <3>3
  <2>3. Met(t, i, items[c].next)
    BY <1>4, <2>1, <2>2, Zenon DEF Met
  <2> QED
    BY <2>3, Zenon DEF t
<1> QED
  BY <1>3, <1>4, Zenon DEF Met

(* The walk begins with the first "data" of an object, or with nothing.      *)
LEMMA WalkBegins ==
    ASSUME Tree, Rooted, SearchEnds, NEW P \in [Nat -> Nat], NamedAsKind(P), Seeking(P)
    PROVE  Walking'
<1>1. /\ Typed /\ members = <<>> /\ frames = <<>> /\ pc = "search" /\ pc' = "walk"
      /\ items' = items /\ strings' = strings /\ root' = root /\ members' = members
  BY Zenon DEF Tree, Typed, Levels, Rooted, SearchEnds, heapVars
<1>2. Live' = Live /\ members' \in Seq(Nat)
  BY <1>1 DEF Live
<1>3. /\ Passed(cursor, Childs(root)) /\ (cursor # NULL => P[cursor] = root)
      /\ cursor \in {NULL} \cup Live
  BY <1>1 DEF Seeking, Typed, Handles
<1>4. cursor # NULL => (Named(cursor) <=> items[root].type = "{")
  BY <1>1, <1>3, Zenon DEF NamedAsKind, RootKind
<1>5. \A d : FirstData(d, Childs(root))' <=> FirstData(d, Childs(root))
  BY <1>1, <1>2 DEF FirstData, NamedData, Childs
<1>6. \A d : FirstData(d, Childs(root)) <=> (d # NULL => NamedData(d)) /\ Passed(d, Childs(root))
  BY Zenon DEF FirstData, Passed
<1>7. \A i : Met(<<>>, i, i)'
  BY Zenon DEF Met
<1>8. CASE cursor = NULL \/ ~Named(cursor)
  <2>1. cursor' = NULL
    BY <1>8, Zenon DEF SearchEnds
  <2>2. items'[root'].type = "{" => FirstData(NULL, Childs(root))'
    <3>1. items[root].type = "{" => FirstData(NULL, Childs(root))
      BY <1>3, <1>4, <1>6, <1>8, Zenon
    <3> QED
      BY <1>1, <1>5, <3>1, Zenon
  <2>3. Met(members, NULL, cursor)'
    BY <1>1, <1>7, <2>1, Zenon
  <2> QED
    BY <1>2, <2>2, <2>3, Zenon DEF Walking
<1>9. CASE cursor # NULL /\ Named(cursor)
  <2>1. IsData(cursor) /\ cursor' = Childs(cursor)
    BY <1>9, Zenon DEF SearchEnds, Childs
  <2>2. PICK d \in Live : d = cursor
    BY <1>3, <1>9
  <2>3. items'[root'].type = "{"
    BY <1>1, <1>4, <1>9, Zenon
  <2>4. FirstData(d, Childs(root))'
    <3>1. NamedData(d)
      BY <2>1, <2>2 DEF IsData, NamedData, Named
    <3> QED
      BY <1>3, <1>5, <1>6, <2>2, <3>1, Zenon
  <2>5. Met(members, Childs(d), cursor)'
    <3>1. cursor' = Childs(d)'
      BY <1>1, <2>1, <2>2 DEF Childs
    <3> QED
      BY <1>1, <1>7, <3>1, Zenon
  <2>6. d # NULL
    BY <1>9, <2>2
  <2> QED
    BY <1>2, <2>2, <2>3, <2>4, <2>5, <2>6, Zenon DEF Walking
<1> QED
  BY <1>8, <1>9

(* The walk goes on from one member to the next.                            *)
LEMMA WalkingStep ==
    ASSUME Tree, Rooted, Walking, [Next]_vars, Family
    PROVE  Walking'
<1>1. CASE pc' # "walk"
  BY <1>1, Zenon DEF Walking
<1>2. CASE SearchEnds
  <2>1. PICK P \in [Nat -> Nat] : NamedAsKind(P) /\ Seeking(P)
    BY <1>2 DEF Family, SearchEnds
  <2> QED
    BY <1>2, <2>1, WalkBegins
<1>3. CASE WalkOn
  <2>1. /\ pc = "walk" /\ cursor # NULL /\ members' = Append(members, cursor)
        /\ cursor' = items[cursor].next /\ items' = items /\ strings' = strings /\ root' = root
    BY <1>3, Zenon DEF WalkOn, heapVars
  <2>2. members \in Seq(Nat)
    BY <2>1, Zenon DEF Walking
  <2>3. cursor \in Nat
    BY <2>1, Elements DEF Tree, Typed, Handles
  <2>4. PICK d \in Live \cup {NULL} :
           /\ d # NULL => items[root].type = "{"
           /\ items[root].type = "{" => FirstData(d, Childs(root))
           /\ Met(members, IF d = NULL THEN NULL ELSE Childs(d), cursor)
    BY <2>1, Zenon DEF Walking
  <2>5. PICK first : first = IF d = NULL THEN NULL ELSE Childs(d)
    OBVIOUS
  <2>6. Met(Append(members, cursor), first, items[cursor].next)
    BY <2>1, <2>2, <2>3, <2>4, <2>5, MetOneMore, Zenon
  <2>7. Met(members, first, cursor)'
    BY <2>1, <2>6, Zenon DEF Met
  <2>8. first = IF d = NULL THEN NULL ELSE Childs(d)'
    BY <2>1, <2>5 DEF Childs
  <2>9. FirstData(d, Childs(root)) => FirstData(d, Childs(root))'
    BY <2>1 DEF FirstData, NamedData, Childs, Live
  <2>10. members' \in Seq(Nat) /\ d \in Live' \cup {NULL}
    <3>1. Append(members, cursor) \in Seq(Nat)
      BY <2>2, <2>3
    <3>2. Live' = Live
      BY <2>1, Zenon DEF Live
    <3> QED
      BY <2>1, <3>1, <3>2, Zenon
  <2>11. Met(members, IF d = NULL THEN NULL ELSE Childs(d), cursor)'
    BY <2>7, <2>8, Zenon
  <2> QED
    BY <2>1, <2>4, <2>9, <2>10, <2>11, Zenon DEF Walking
<1>4. CASE UNCHANGED vars
  <2>1. /\ cursor' = cursor /\ items' = items /\ strings' = strings /\ root' = root /\ pc' = pc
        /\ members' = members
    BY <1>4, Zenon DEF vars, heapVars, useVars
  <2> QED
    BY <2>1, ZenonT(60) DEF Walking, FirstData, Met, Childs, NamedData, Live
<1>5. pc' = "walk" => SearchEnds \/ WalkOn \/ UNCHANGED vars
  BY DEF Next, Start, Literal, parse_number, StringValue, NoValue, Open, Element, Name, Return, Close,
     Unwind, SearchOn, SearchEnds, WalkOn, WalkEnds, DeleteChildren, DeleteItem, Deleted, Parsed,
     NoMemory, Fail
<1> QED
  BY <1>1, <1>2, <1>3, <1>4, <1>5

LEMMA FamilyStep == Tree /\ Rooted /\ Family /\ [Next]_vars => Family'
<1> SUFFICES ASSUME Tree, Rooted, Family, [Next]_vars, GoesOn
             PROVE  \E Q \in [Nat -> Nat] : /\ Parents(Q)' /\ Siblings(Q)' /\ FirstChild(Q)'
                                            /\ NamedAsKind(Q)' /\ Seeking(Q)'
  BY DEF Family, GoesOn
<1>1. pc \notin {"fail", "delete", "done"}
  BY WentOn
<1>2. PICK P \in [Nat -> Nat] : /\ Parents(P) /\ Siblings(P) /\ FirstChild(P)
                                /\ NamedAsKind(P) /\ Seeking(P)
  BY <1>1, Zenon DEF Family
<1>3. PICK Q \in [Nat -> Nat] : /\ Parents(Q) /\ Siblings(Q) /\ FirstChild(Q)
                                /\ NamedAsKind(Q) /\ Seeking(Q)
                                /\ Q[Fresh] = IF frames = <<>> THEN NULL ELSE Top.item
  BY <1>2, FamilyOfNew, Zenon
<1>4. HeapSteps /\ (frames # <<>> => Q[Fresh] = Top.item)
  BY <1>3, HeapStep, Zenon
<1>5. Parents(Q)'
  BY <1>3, <1>4, ParentsStep
<1> QED
  BY <1>3, <1>4, <1>5, SiblingsStep, FirstChildStep, NamedAsKindStep, SeekingStep, Zenon

(* send_event is called for the members of the first "data" of an object,   *)
(* each once and in order, and for nothing else (MembersAsSent).            *)
THEOREM SentInOrder == Spec => []MembersAsSent
<1>1. Init => Rooted /\ Family /\ Walking
  <2> SUFFICES ASSUME Init PROVE Rooted /\ Family /\ Walking
    OBVIOUS
  <2>1. Live = {} /\ ~Parsing /\ pc = "start" /\ members = <<>> /\ frames = <<>> /\ root = NULL
    BY DEF Init, Live, Parsing
  <2>2. Rooted /\ Walking
    BY <2>1 DEF Rooted, Walking
  <2>3. [i \in Nat |-> 0] \in [Nat -> Nat]
    OBVIOUS
  <2>4. \A P : Parents(P) /\ Siblings(P) /\ FirstChild(P) /\ NamedAsKind(P) /\ Seeking(P)
    BY <2>1 DEF Parents, Siblings, FirstChild, NamedAsKind, Seeking
  <2> QED
    BY <2>2, <2>3, <2>4, Zenon DEF Family
<1>2. Walking => MembersAsSent
  <2> SUFFICES ASSUME Walking, pc = "walk", cursor = NULL
               PROVE  IF items[root].type = "{"
                      THEN \E d \in Live \cup {NULL} :
                              /\ FirstData(d, Childs(root))
                              /\ IsList(members, IF d = NULL THEN NULL ELSE Childs(d))
                      ELSE members = <<>>
    BY Zenon DEF MembersAsSent
  <2>1. PICK d \in Live \cup {NULL} :
           /\ d # NULL => items[root].type = "{"
           /\ items[root].type = "{" => FirstData(d, Childs(root))
           /\ Met(members, IF d = NULL THEN NULL ELSE Childs(d), NULL)
    BY Zenon DEF Walking
  <2>2. \A i : Met(members, i, NULL) => IsList(members, i)
    BY Zenon DEF Met, IsList
  <2>3. items[root].type # "{" => members = <<>>
    BY <2>1, Zenon DEF Met
  <2> QED
    BY <2>1, <2>2, <2>3, Zenon
<1>3. Tree /\ Rooted /\ Family /\ Walking /\ [Next]_vars => Rooted' /\ Family' /\ Walking'
  BY RootedStep, FamilyStep, WalkingStep, Zenon
<1> QED
  BY <1>1, <1>2, <1>3, TreeInvariant, PTL DEF Spec

-----------------------------------------------------------------------------
(* The grammar. *)

Offsets == 0..(Len(text) - 1)
Depths == 0..NESTING_LIMIT

(* The first token that is no white space is unique.                        *)
LEMMA NextTokenIs ==
    ASSUME text \in Texts, NEW o \in Offsets, NEW j \in o..(Len(text) - 1),
           \A k \in o..(j - 1) : TokenOf(text, k) \in Space,
           TokenOf(text, j) \notin Space \/ j = Len(text) - 1
    PROVE  NextToken(text, o) = j
<1> DEFINE Is(m) == /\ \A k \in o..(m - 1) : TokenOf(text, k) \in Space
                    /\ TokenOf(text, m) \notin Space \/ m = Len(text) - 1
<1>1. PICK n \in Nat : n = Len(text) - 1
  BY TextsAssumption
<1>2. ASSUME NEW m \in o..n, Is(m), NEW l \in o..n, Is(l) PROVE m = l
  <2>1. o \in Int
    BY DEF Offsets
  <2>2. ASSUME NEW a \in o..n, Is(a), NEW b \in o..n, Is(b), a < b PROVE FALSE
    <3>1. a \in o..(b - 1) /\ a # n
      BY <2>1, <2>2
    <3> QED
      BY <1>1, <2>2, <3>1
  <2>3. m < l \/ l < m \/ m = l
    BY <2>1
  <2> QED
    BY <1>2, <2>2, <2>3
<1>3. NextToken(text, o) = CHOOSE m \in o..n : Is(m)
  BY <1>1 DEF NextToken
<1>4. j \in o..n /\ Is(j)
  BY <1>1
<1> HIDE DEF Is
<1>5. (CHOOSE m \in o..n : Is(m)) \in o..n /\ Is(CHOOSE m \in o..n : Is(m))
  BY <1>4, Zenon
<1> QED
  BY <1>2, <1>3, <1>4, <1>5, Zenon

(* buffer_skip_whitespace finds it.                                         *)
LEMMA SkipIsNext ==
    ASSUME text \in Texts, NEW o \in Offsets
    PROVE  /\ Skip(o) = NextToken(text, o) /\ NextToken(text, o) \in Offsets /\ o <= NextToken(text, o)
           /\ TokenOf(text, NextToken(text, o)) \notin Space \/ NextToken(text, o) = Len(text) - 1
<1> DEFINE n == Len(text)
           StopsAt(j) == (\A k \in o..(j - 1) : Tok(k) \in Space) /\ Tok(j) \notin Space
           Stops == {j \in o..n : Tok(j) \notin Space}
<1>1. n \in Nat \ {0} /\ o \in Nat /\ o < n
  BY TextsAssumption DEF Offsets
<1>2. Tok(n) \notin Space
  BY <1>1 DEF Tok, CanAccess, Space
<1>3. PICK j \in Stops : \A k \in Stops : j <= k
  <2>1. Stops \in SUBSET Nat /\ n \in Stops
    BY <1>1, <1>2
  <2> HIDE DEF Stops
  <2> QED
    BY <2>1, Least
<1>4. j \in o..n /\ StopsAt(j)
  BY <1>1, <1>3
<1> DEFINE stop == CHOOSE m \in o..n : StopsAt(m)
<1>5. stop \in o..n /\ StopsAt(stop)
  <2> HIDE DEF StopsAt
  <2> QED
    BY <1>4, Zenon
<1>6. Skip(o) = StayInside(stop)
  BY Zenon DEF Skip
<1> HIDE DEF stop
<1>7. PICK m : m = StayInside(stop)
  OBVIOUS
<1>8. m \in o..(n - 1) /\ (stop # n => m = stop) /\ (stop = n => m = n - 1)
  BY <1>1, <1>5, <1>7 DEF StayInside
<1>9. \A k \in o..(n - 1) : Tok(k) = TokenOf(text, k)
  BY <1>1 DEF Tok, CanAccess, TokenOf
<1>10. ASSUME NEW k \in o..(m - 1) PROVE TokenOf(text, k) \in Space
  <2>1. k \in o..(stop - 1) /\ k \in o..(n - 1)
    BY <1>1, <1>5, <1>8
  <2> QED
    BY <1>5, <1>9, <2>1, Zenon
<1>11. TokenOf(text, m) \notin Space \/ m = n - 1
  <2>1. CASE stop = n
    BY <1>8, <2>1
  <2>2. CASE stop # n
    BY <1>5, <1>8, <1>9, <2>2
  <2> QED
    BY <2>1, <2>2
<1>12. NextToken(text, o) = m
  BY <1>8, <1>10, <1>11, NextTokenIs
<1> QED
  BY <1>1, <1>6, <1>7, <1>8, <1>11, <1>12 DEF Offsets

(* From there it does not go on.                                            *)
LEMMA NextAgain ==
    ASSUME text \in Texts, NEW o \in Offsets
    PROVE  NextToken(text, NextToken(text, o)) = NextToken(text, o)
<1>1. PICK j \in Offsets : /\ j = NextToken(text, o)
                           /\ TokenOf(text, j) \notin Space \/ j = Len(text) - 1
  BY SkipIsNext
<1>2. j \in j..(Len(text) - 1) /\ \A k \in j..(j - 1) : FALSE
  BY <1>1, TextsAssumption DEF Offsets
<1> QED
  BY <1>1, <1>2, NextTokenIs

(* What is no NUL has a token behind it.                                    *)
LEMMA HasNext ==
    ASSUME text \in Texts, NEW o \in Offsets, TokenOf(text, o) # "NUL"
    PROVE  o + 1 \in Offsets
BY TextsAssumption DEF Offsets, TokenOf

(* The ends of a value.                                                     *)
LEMMA ValueEquation ==
    ASSUME text \in Texts, NEW o \in Offsets, NEW d \in Depths
    PROVE  /\ Grammar[text].value[o, d] \in Offsets
           /\ Grammar[text].value[o, d] = ValueEnds(text, Grammar[text].list, o, d)
<1>1. IsGrammar(text, Grammar[text].value, Grammar[text].list)
  BY GrammarAssumption
<1>2. /\ Grammar[text].value \in [Offsets \X Depths -> Offsets]
      /\ \A a \in Offsets, b \in Depths :
            Grammar[text].value[a, b] = ValueEnds(text, Grammar[text].list, a, b)
  BY <1>1, Zenon DEF IsGrammar, Offsets, Depths
<1> QED
  BY <1>2

LEMMA ListEquation ==
    ASSUME text \in Texts, NEW o \in Offsets, NEW d \in Depths, NEW opener \in DOMAIN Closer
    PROVE  /\ Grammar[text].list[o, d, opener] \in Offsets
           /\ Grammar[text].list[o, d, opener]
                = ListEnds(text, Grammar[text].value, Grammar[text].list, o, d, opener)
<1>1. IsGrammar(text, Grammar[text].value, Grammar[text].list)
  BY GrammarAssumption
<1>2. /\ Grammar[text].list \in [Offsets \X Depths \X DOMAIN Closer -> Offsets]
      /\ \A a \in Offsets, b \in Depths : \A c \in DOMAIN Closer :
            Grammar[text].list[a, b, c]
               = ListEnds(text, Grammar[text].value, Grammar[text].list, a, b, c)
  BY <1>1, Zenon DEF IsGrammar, Offsets, Depths
<1> QED
  BY <1>2

(* A scalar is one token, or a number of two; ...                           *)
LEMMA ScalarEnds ==
    ASSUME text \in Texts, NEW o \in Offsets, NEW d \in Depths,
           TokenOf(text, o) \in Strings \cup Numbers \cup Literals
    PROVE  Grammar[text].value[o, d] = ScalarEnd(text, o)
BY ValueEquation, Zenon DEF ValueEnds

(* ... what begins no value, or a list too deep, has no end; ...            *)
LEMMA NoValueThere ==
    ASSUME text \in Texts, NEW o \in Offsets, NEW d \in Depths,
           TokenOf(text, o) \in Others \ Literals,
           TokenOf(text, o) \in DOMAIN Closer => d = NESTING_LIMIT
    PROVE  Grammar[text].value[o, d] = NULL
<1>1. TokenOf(text, o) \notin Strings \cup Numbers \cup Literals
  BY TextsAssumption, Zenon
<1>2. d = NESTING_LIMIT => ~(d < NESTING_LIMIT)
  BY JsonAssumption
<1> QED
  BY <1>1, <1>2, ValueEquation, Zenon DEF ValueEnds

(* ... and a list ends behind its bracket.                                  *)
LEMMA ListValue ==
    ASSUME text \in Texts, NEW o \in Offsets, NEW d \in Depths, d < NESTING_LIMIT,
           TokenOf(text, o) \in DOMAIN Closer,
           NEW first, first = NextToken(text, o + 1)
    PROVE  Grammar[text].value[o, d] =
              IF TokenOf(text, first) = Closer[TokenOf(text, o)] THEN first + 1
              ELSE IF Grammar[text].list[first, d + 1, TokenOf(text, o)] # NULL
                   THEN Grammar[text].list[first, d + 1, TokenOf(text, o)] + 1 ELSE NULL
<1>1. TokenOf(text, o) \in Others \ Literals
  BY Zenon DEF Closer, Others, Literals
<1>2. TokenOf(text, o) \notin Strings \cup Numbers \cup Literals
  BY <1>1, TextsAssumption, Zenon
<1> QED
  BY <1>2, ValueEquation, Zenon DEF ValueEnds

(* What remains of a list whose element has no end, or no name, has none.    *)
LEMMA NoListThere ==
    ASSUME text \in Texts, NEW o \in Offsets, NEW d \in Depths, NEW opener \in DOMAIN Closer,
           \/ opener = "{" /\ ~HasName(text, o)
           \/ Grammar[text].value[ElementAt(text, o, opener), d] = NULL
    PROVE  Grammar[text].list[o, d, opener] = NULL
BY ListEquation, Zenon DEF ListEnds

-----------------------------------------------------------------------------
(* What a step leaves as it was. *)

LEMMA TextKept == [Next]_vars => text' = text
BY Zenon DEF Next, Start, Literal, parse_number, StringValue, NoValue, Open, Element, Name, Return,
   Close, Unwind, SearchOn, SearchEnds, WalkOn, WalkEnds, DeleteChildren, DeleteItem, Deleted, Parsed,
   NoMemory, Fail, vars, bufferVars

(* Where an item began stays, and is noted for the new one.                 *)
LEMMA BeganStep ==
    ASSUME Tree, [Next]_vars
    PROVE  /\ \A i \in Live : i \in DOMAIN began => i \in DOMAIN began' /\ began'[i] = began[i]
           /\ (Start \/ Element) /\ ~NoMemory =>
                 \A new : new = Fresh => /\ new \in DOMAIN began'
                                         /\ began'[new] = [at |-> offset', depth |-> depth]
<1>1. Fresh \notin Live
  BY DEF Tree, Typed, Cells, Fresh
<1>2. CASE (Start \/ Element) /\ ~NoMemory
  <2>1. PICK p : p = [at |-> offset', depth |-> depth]
    OBVIOUS
  <2>2. began' = Extend(began, Fresh, p)
    BY <1>2, <2>1, Zenon DEF Start, Element
  <2>3. /\ DOMAIN began' = DOMAIN began \cup {Fresh} /\ began'[Fresh] = p
        /\ \A i \in DOMAIN began : i # Fresh => began'[i] = began[i]
    BY <2>2 DEF Extend
  <2> QED
    BY <1>1, <2>1, <2>3, Zenon
<1>3. CASE ~((Start \/ Element) /\ ~NoMemory)
  <2>1. began' = began
    BY <1>3, Zenon DEF Next, Start, Literal, parse_number, StringValue, NoValue, Open, Element, Name,
       Return, Close, Unwind, SearchOn, SearchEnds, WalkOn, WalkEnds, DeleteChildren, DeleteItem,
       Deleted, Parsed, NoMemory, Fail, vars, heapVars
  <2> QED
    BY <1>3, <2>1
<1> QED
  BY <1>2, <1>3

(* What has been filled in stays: the links but for the current item's and a *)
(* closed list's, the rest but for what is being parsed.                    *)
LEMMA ItemStep ==
    ASSUME Tree, HeapSteps, [Next]_vars, GoesOn, NEW i \in Live
    PROVE  /\ i # current \/ ~Element \/ Top.head = NULL => items'[i].next = items[i].next
           /\ i = current /\ Element /\ Top.head # NULL => items'[i].next = Fresh
           /\ ~(Close /\ i = Top.item) => items'[i].child = items[i].child
           /\ Close /\ i = Top.item => items'[i].child = Top.head /\ items'[i].type = Top.opener
           /\ (i # current \/ pc \notin {"value", "name"}) /\ ~(Close /\ i = Top.item) =>
                 /\ items'[i].type = items[i].type /\ items'[i].value = items[i].value
                 /\ items'[i].valuestring = items[i].valuestring
<1>1. Typed /\ Growing /\ Cells /\ (pc \in {"element", "close"} => frames # <<>>)
  BY DEF Tree, Typed, Levels
<1>2. ~NoMemory /\ ~DeleteItem /\ ~Fail
  BY WentOn
<1>3. items[i] \in Cell
  BY <1>1, Elements
<1>4. CASE Start
  <2>1. ItemAdded(FALSE)
    BY <1>1, <1>2, <1>4, AddsRoot
  <2>2. items'[i] = items[i] /\ ~Element /\ ~Close
    BY <1>4, <2>1 DEF ItemAdded, Start, Element, Close
  <2> QED
    BY <2>2
<1>5. CASE Element
  <2>1. ItemAdded(Top.head # NULL) /\ pc = "element"
    BY <1>1, <1>2, <1>5, AddsElement DEF Element, Growing, Parsing
  <2>2. i # current \/ Top.head = NULL => items'[i] = items[i]
    BY <2>1, Zenon DEF ItemAdded
  <2>3. i = current /\ Top.head # NULL => items'[i] = [items[i] EXCEPT !.next = Fresh]
    BY <2>1, Zenon DEF ItemAdded
  <2>4. ~Close
    BY <2>1 DEF Close
  <2>5. CASE i # current \/ Top.head = NULL
    BY <2>2, <2>4, <2>5, Zenon
  <2>6. CASE i = current /\ Top.head # NULL
    <3>1. /\ items'[i].next = Fresh /\ items'[i].child = items[i].child
          /\ items'[i].type = items[i].type /\ items'[i].value = items[i].value
          /\ items'[i].valuestring = items[i].valuestring
      BY <1>3, <2>3, <2>6 DEF Cell
    <3> QED
      BY <1>5, <2>4, <2>6, <3>1, Zenon
  <2> QED
    BY <2>5, <2>6, Zenon
<1>6. CASE Close
  <2>1. items'[i] = Closed(i) /\ ~Element
    BY <1>1, <1>6, ClosesList DEF Growing, Parsing, Close, ListClosed, Element
  <2> QED
    BY <1>3, <1>6, <2>1 DEF Closed, Cell
<1>7. CASE ~(Start \/ Element \/ Close)
  <2>1. items'[i].next = items[i].next /\ items'[i].child = items[i].child
    BY <1>2, <1>7, LinksKept
  <2>2. i # current \/ pc \notin {"value", "name"} => items'[i] = items[i]
    <3>1. CASE Kept
      BY <3>1 DEF Kept
    <3>2. CASE FilledIn \/ CharsAdded
      <4>1. Filled
        BY <3>2 DEF FilledIn, CharsAdded
      <4>2. CASE i # current
        BY <4>1, <4>2 DEF Filled
      <4>3. CASE pc \notin {"value", "name"}
        <5>1. ~Literal /\ ~parse_number /\ ~StringValue /\ ~Name
          BY <4>3, Zenon DEF Literal, parse_number, StringValue, Name
        <5>2. items' = items
          BY <1>2, <1>7, <5>1, Zenon DEF Next, NoValue, Open, Return, Unwind, SearchOn,
             SearchEnds, WalkOn, WalkEnds, DeleteChildren, Deleted, vars, heapVars
        <5> QED
          BY <5>2, Zenon
      <4> QED
        BY <4>2, <4>3
    <3> QED
      BY <1>2, <1>7, <3>1, <3>2, Zenon DEF HeapSteps, ItemAdded, ListClosed, ItemFreed
  <2> QED
    BY <1>7, <2>1, <2>2, Zenon
<1> QED
  BY <1>4, <1>5, <1>6, <1>7, Zenon

(* So do the characters.                                                    *)
LEMMA CharsStep ==
    ASSUME Tree, HeapSteps, ~DeleteItem, NEW a \in DOMAIN strings
    PROVE  a \in DOMAIN strings' /\ strings'[a] = strings[a]
<1>1. a # Fresh
  BY DEF Tree, Typed, Arrays, Cells, Fresh
<1>2. CASE strings' = strings
  BY <1>2
<1>3. CASE strings' = Extend(strings, Fresh, Here)
  BY <1>1, <1>3 DEF Extend
<1> QED
  BY <1>2, <1>3, Zenon DEF HeapSteps, Kept, FilledIn, CharsAdded, ItemAdded, ListClosed, ItemFreed

(* Where the value of an item begins and ends follows from its name and from *)
(* where the item began; and so does what was read there.                   *)
LEMMA PlaceKept ==
    ASSUME NEW i, text' = text, items'[i].string = items[i].string, began'[i] = began[i]
    PROVE  /\ Named(i)' <=> Named(i)
           /\ ValueAt(i)' = ValueAt(i) /\ EndOf(i)' = EndOf(i) /\ Behind(i)' = Behind(i)
<1>1. Named(i)' <=> Named(i)
  BY Zenon DEF Named
<1>2. ValueAt(i)' = ValueAt(i)
  BY <1>1, Zenon DEF ValueAt
<1>3. EndOf(i)' = EndOf(i)
  BY <1>2, Zenon DEF EndOf
<1> QED
  BY <1>1, <1>2, <1>3, Zenon DEF Behind

(* What the text is does not change.                                         *)
LEMMA NoJsonKept == ASSUME text' = text PROVE NoJson' = NoJson
BY Zenon DEF NoJson, TextAt

(* Where the live items lie in the text stays.                               *)
LEMMA PlacesStep ==
    ASSUME Tree, Placed, HeapSteps, [Next]_vars, GoesOn, NEW i \in Live, i # current \/ ~Name
    PROVE  /\ text' = text /\ items'[i].string = items[i].string /\ began'[i] = began[i]
           /\ Named(i)' <=> Named(i)
           /\ ValueAt(i)' = ValueAt(i) /\ EndOf(i)' = EndOf(i) /\ Behind(i)' = Behind(i)
           /\ NameRead(i) => NameRead(i)'
<1>1. text' = text /\ items'[i].string = items[i].string
  BY TextKept, NamesStep, Zenon
<1>2. began'[i] = began[i]
  BY BeganStep, Zenon DEF Placed
<1>3. /\ Named(i)' <=> Named(i)
      /\ ValueAt(i)' = ValueAt(i) /\ EndOf(i)' = EndOf(i) /\ Behind(i)' = Behind(i)
  BY <1>1, <1>2, PlaceKept, Zenon
<1>4. NameRead(i) => NameRead(i)'
  <2>1. Named(i) => items[i].string \in DOMAIN strings
    BY CharPointers DEF Tree, Named
  <2>2. Named(i) => strings'[items[i].string] = strings[items[i].string]
    BY <2>1, CharsStep, WentOn, Zenon
  <2> QED
    BY <1>1, <1>2, <1>3, <2>2, Zenon DEF NameRead
<1> QED
  BY <1>1, <1>2, <1>3, <1>4, Zenon

(* What was read of a value stays unless the value changes.                 *)
LEMMA ValueKept ==
    ASSUME Tree, Placed, HeapSteps, [Next]_vars, GoesOn, NEW i \in Live, i # current \/ ~Name,
           items'[i].type = items[i].type, items'[i].value = items[i].value,
           items'[i].valuestring = items[i].valuestring, items'[i].child = items[i].child,
           deleting = <<>>, ValueRead(i), HasChars(i)
    PROVE  ValueRead(i)' /\ HasChars(i)'
<1>1. /\ text' = text /\ began'[i] = began[i]
      /\ ValueAt(i)' = ValueAt(i) /\ EndOf(i)' = EndOf(i)
  BY PlacesStep
<1>2. items[i].type = "string" => strings'[items[i].valuestring] = strings[items[i].valuestring]
  BY CharPointers, CharsStep, WentOn DEF Tree, HasChars
<1>3. items[i].child # NULL => began'[items[i].child] = began[items[i].child]
  <2>1. Entered = {}
    BY DEF Entered
  <2>2. items[i].child # NULL => items[i].child \in Live
    BY <2>1, Pointers DEF Tree
  <2> QED
    BY <2>2, BeganStep, Zenon DEF Placed
<1>4. Childs(i)' = Childs(i)
  BY Zenon DEF Childs
<1>5. EndOf(i)' # NULL
  BY <1>1, Zenon DEF ValueRead
<1> QED
  BY <1>1, <1>2, <1>3, <1>4, <1>5, Zenon DEF ValueRead, Childs, HasChars

(* What is behind an item is still what the text says.                       *)
LEMMA NextKept ==
    ASSUME Tree, Placed, HeapSteps, [Next]_vars, GoesOn, NEW i \in Live, i # current \/ ~Name,
           items'[i].next = items[i].next, NextRead(i)
    PROVE  NextRead(i)'
<1>1. text' = text /\ began'[i] = began[i] /\ Behind(i)' = Behind(i)
  BY PlacesStep
<1>2. items[i].next # NULL => began'[items[i].next] = began[items[i].next]
  BY Pointers, BeganStep, Zenon DEF Placed, Tree
<1> QED
  BY <1>1, <1>2, Zenon DEF NextRead

-----------------------------------------------------------------------------
(* What the grammar says of where the parser is. *)

LEMMA Where ==
    ASSUME Tree, Parsing
    PROVE  /\ text \in Texts /\ offset \in Offsets /\ Here = TokenOf(text, offset)
           /\ depth = Len(frames) /\ depth \in Depths /\ current \in Live /\ deleting = <<>>
           /\ \A k \in DOMAIN frames : /\ k \in Nat /\ k - 1 \in Depths /\ k \in Depths /\ k \in 1..depth
                                       /\ frames[k].item \in Live /\ frames[k].opener \in DOMAIN Closer
                                       /\ frames[k].head # NULL => frames[k].head \in Live
           /\ frames # <<>> => Top = frames[depth] /\ depth \in DOMAIN frames
<1>1. Typed /\ Growing /\ Nested /\ Owned
  BY DEF Tree, Ordered
<1>2. text \in Texts /\ offset \in Nat /\ offset < Len(text) /\ Len(text) \in Nat
  BY <1>1, TextsAssumption DEF Typed, Reading
<1>3. offset \in Offsets /\ Here = TokenOf(text, offset)
  BY <1>2 DEF Offsets, Here, Tok, CanAccess, TokenOf
<1>4. depth = Len(frames) /\ depth \in Nat /\ Len(frames) <= NESTING_LIMIT
  BY <1>1 DEF Typed, Levels
<1>5. depth \in Depths
  BY <1>4, JsonAssumption DEF Depths
<1>6. deleting = <<>>
  BY <1>1 DEF Typed, Freeing, Parsing
<1>7. ASSUME NEW k \in DOMAIN frames
      PROVE  /\ k \in Nat /\ k - 1 \in Depths /\ k \in Depths /\ k \in 1..depth
             /\ frames[k].item \in Live /\ frames[k].opener \in DOMAIN Closer
             /\ frames[k].head # NULL => frames[k].head \in Live
  <2>1. k \in 1..depth /\ frames[k] \in Frame
    BY <1>1, <1>4, Elements
  <2>2. k - 1 \in Depths /\ k \in Depths
    BY <1>4, <2>1, JsonAssumption DEF Depths
  <2>3. frames[k].opener \in DOMAIN Closer
    BY <2>1, Zenon DEF Frame, Closer
  <2> QED
    BY <1>1, <2>1, <2>2, <2>3, Pointers DEF Nested
<1>8. frames # <<>> => Top = frames[depth] /\ depth \in DOMAIN frames
  BY <1>1, <1>4, TopFrame, Zenon DEF Top
<1> QED
  BY <1>1, <1>2, <1>3, <1>4, <1>5, <1>6, <1>7, <1>8, Zenon DEF Growing

LEMMA BehindNameIn ==
    ASSUME text \in Texts, NEW o \in Offsets, HasName(text, o)
    PROVE  /\ o + 1 \in Offsets /\ NextToken(text, o + 1) \in Offsets
           /\ NextToken(text, o + 1) + 1 \in Offsets /\ BehindName(text, o) \in Offsets
<1>1. TokenOf(text, o) # "NUL"
  BY TextsAssumption, Zenon DEF HasName, Others, Space
<1>2. o + 1 \in Offsets
  BY <1>1, HasNext
<1>3. NextToken(text, o + 1) \in Offsets /\ TokenOf(text, NextToken(text, o + 1)) # "NUL"
  BY <1>2, SkipIsNext DEF HasName
<1>4. NextToken(text, o + 1) + 1 \in Offsets
  BY <1>3, HasNext
<1> QED
  BY <1>2, <1>3, <1>4, SkipIsNext DEF BehindName

LEMMA ValueAtIn ==
    ASSUME text \in Texts, NEW i, began[i] \in Place, NameRead(i)
    PROVE  /\ began[i].at \in Offsets /\ began[i].depth \in Depths /\ ValueAt(i) \in Offsets
           /\ EndOf(i) \in Offsets /\ Behind(i) \in Offsets /\ EndOf(i) <= Behind(i)
           /\ Skip(EndOf(i)) = Behind(i)
<1>1. began[i].at \in Offsets /\ began[i].depth \in Depths
  BY DEF Place, Offsets, Depths
<1>2. ValueAt(i) \in Offsets
  BY <1>1, BehindNameIn DEF ValueAt, NameRead
<1>3. EndOf(i) \in Offsets
  BY <1>1, <1>2, ValueEquation, Zenon DEF EndOf
<1> QED
  BY <1>1, <1>2, <1>3, SkipIsNext, Zenon DEF Behind

(* Where the item of a level ends.                                          *)
LEMMA LevelEnds ==
    ASSUME Tree, Parsing, Placed, NEW k \in DOMAIN frames, NameRead(frames[k].item), LevelRead(k)
    PROVE  /\ FirstIn(k) \in Offsets
           /\ EndOf(frames[k].item) =
                 IF TokenOf(text, FirstIn(k)) = Closer[frames[k].opener] THEN FirstIn(k) + 1
                 ELSE IF ListAt(FirstIn(k), k) # NULL THEN ListAt(FirstIn(k), k) + 1 ELSE NULL
<1>1. /\ text \in Texts /\ frames[k].item \in Live /\ frames[k].opener \in DOMAIN Closer
      /\ k \in Nat /\ k - 1 \in Depths
  BY Where
<1>2. PICK o \in Offsets : o = ValueAt(frames[k].item)
  BY <1>1, ValueAtIn, Zenon DEF Placed
<1>3. PICK d \in Depths : d = k - 1 /\ d + 1 = k
  BY <1>1
<1>4. d < NESTING_LIMIT /\ began[frames[k].item].depth = d /\ TokenOf(text, o) = frames[k].opener
  BY <1>2, <1>3, Zenon DEF LevelRead
<1>5. PICK first : first = NextToken(text, o + 1)
  OBVIOUS
<1>6. FirstIn(k) = first
  BY <1>2, <1>5, Zenon DEF FirstIn
<1>7. Grammar[text].value[o, d] =
              IF TokenOf(text, first) = Closer[TokenOf(text, o)] THEN first + 1
              ELSE IF Grammar[text].list[first, d + 1, TokenOf(text, o)] # NULL
                   THEN Grammar[text].list[first, d + 1, TokenOf(text, o)] + 1 ELSE NULL
  BY <1>1, <1>4, <1>5, ListValue, Zenon
<1>8. EndOf(frames[k].item) = Grammar[text].value[o, d]
  BY <1>2, <1>4, Zenon DEF EndOf
<1>9. ListAt(FirstIn(k), k) = Grammar[text].list[first, d + 1, TokenOf(text, o)]
  BY <1>3, <1>4, <1>6, Zenon DEF ListAt
<1>10. first \in Offsets
  <2>1. TokenOf(text, o) # "NUL"
    BY <1>1, <1>4, Zenon DEF Closer
  <2>2. o + 1 \in Offsets
    BY <1>1, <2>1, HasNext
  <2> QED
    BY <1>1, <1>5, <2>2, SkipIsNext
<1> QED
  BY <1>4, <1>6, <1>7, <1>8, <1>9, <1>10, Zenon

(* A list that goes on with what is no JSON is none, ...                    *)
LEMMA NoList ==
    ASSUME Tree, Parsing, Placed, NEW k \in DOMAIN frames, NameRead(frames[k].item), LevelRead(k),
           TokenOf(text, FirstIn(k)) # Closer[frames[k].opener], ListAt(FirstIn(k), k) = NULL
    PROVE  NoJson
BY LevelEnds, Zenon DEF LevelRead

(* ... and it goes on, or ends, behind its last element.                    *)
LEMMA ListBehind ==
    ASSUME Tree, Parsing, pc # "name", Placed, frames # <<>>, Top.head # NULL, ListRead(depth),
           NameRead(current), EndOf(current) # NULL
    PROVE  /\ TokenOf(text, Behind(current)) = "," =>
                 ListAt(FirstIn(depth), depth) = ListAt(NextToken(text, Behind(current) + 1), depth)
           /\ TokenOf(text, Behind(current)) # "," =>
                 ListAt(FirstIn(depth), depth) =
                    IF TokenOf(text, Behind(current)) = Closer[Top.opener] THEN Behind(current) ELSE NULL
<1>1. /\ text \in Texts /\ current \in Live /\ depth \in Depths /\ depth = Len(frames)
      /\ Top = frames[depth] /\ Top.opener \in DOMAIN Closer
  BY Where
<1>2. began[current] \in Place
  BY <1>1 DEF Placed
<1>3. PICK o \in Offsets : o = began[current].at
  BY <1>1, <1>2, ValueAtIn
<1>4. ElementOf(depth) = current
  BY <1>1 DEF ElementOf
<1>5. /\ began[current].depth = depth /\ ListAt(o, depth) = ListAt(FirstIn(depth), depth)
      /\ Named(current) <=> Top.opener = "{"
  BY <1>1, <1>3, <1>4, Zenon DEF ListRead
<1>6. (Top.opener = "{" => HasName(text, o)) /\ ElementAt(text, o, Top.opener) = ValueAt(current)
  <2>1. Top.opener = "[" \/ Top.opener = "{"
    BY <1>1, Zenon DEF Closer
  <2> QED
    BY <1>3, <1>5, <2>1, Zenon DEF NameRead, ElementAt, ValueAt
<1>7. EndOf(current) = Grammar[text].value[ElementAt(text, o, Top.opener), depth]
  BY <1>5, <1>6, Zenon DEF EndOf
<1>8. PICK b : b = NextToken(text, EndOf(current)) /\ b = Behind(current)
  BY Zenon DEF Behind
<1>9. PICK opener \in DOMAIN Closer, d \in Depths : opener = Top.opener /\ d = depth
  BY <1>1
<1>10. /\ opener = "{" => HasName(text, o)
       /\ Grammar[text].value[ElementAt(text, o, opener), d] # NULL
       /\ b = NextToken(text, Grammar[text].value[ElementAt(text, o, opener), d])
  BY <1>6, <1>7, <1>8, <1>9, Zenon
<1>11. /\ TokenOf(text, b) = "," =>
             Grammar[text].list[o, d, opener] = Grammar[text].list[NextToken(text, b + 1), d, opener]
       /\ TokenOf(text, b) # "," =>
             Grammar[text].list[o, d, opener] = IF TokenOf(text, b) = Closer[opener] THEN b ELSE NULL
  <2>1. Grammar[text].list[o, d, opener]
           = ListEnds(text, Grammar[text].value, Grammar[text].list, o, d, opener)
    BY <1>1, ListEquation, Zenon
  <2> QED
    BY <1>8, <1>10, <2>1, Zenon DEF ListEnds
<1> QED
  BY <1>1, <1>5, <1>8, <1>9, <1>11, Zenon DEF ListAt

(* A new item begins inside the text.                                       *)
LEMMA PlacedStep == ASSUME Tree, Placed, HeapSteps, [Next]_vars PROVE Placed'
<1>1. Tree' /\ text' = text
  BY TreeStep, TextKept, Zenon
<1>2. Place' = Place
  BY <1>1, Zenon DEF Place
<1>3. ASSUME NEW i \in Live' PROVE i \in DOMAIN began' /\ began'[i] \in Place
  <2>1. CASE i \in Live
    <3>1. i \in DOMAIN began' /\ began'[i] = began[i] /\ began[i] \in Place
      BY <2>1, BeganStep, Zenon DEF Placed
    <3> QED
      BY <3>1, Zenon
  <2>2. CASE i \notin Live
    <3>1. Start \/ Element
      BY <1>3, <2>2, Zenon DEF HeapSteps, Kept, FilledIn, CharsAdded, Filled, ItemAdded, ListClosed,
         ItemFreed, Live
    <3>2. ~NoMemory
      BY <1>3, <2>2, Zenon DEF NoMemory, Live
    <3>3. i = Fresh
      BY <1>3, <2>2, LiveStep
    <3>4. i \in DOMAIN began' /\ began'[i] = [at |-> offset', depth |-> depth]
      BY <3>1, <3>2, <3>3, BeganStep, Zenon
    <3>5. offset' \in 0..(Len(text) - 1)
      <4>1. Reading'
        BY <1>1 DEF Tree, Typed
      <4>2. offset' \in Nat /\ offset' < Len(text) /\ Len(text) \in Nat
        BY <1>1, <4>1, TextsAssumption DEF Reading
      <4> QED
        BY <4>2
    <3>6. depth \in 0..NESTING_LIMIT
      <4>1. CASE Start
        BY <4>1, JsonAssumption DEF Tree, Typed, Levels, Start
      <4>2. CASE Element
        BY <4>2, Where DEF Parsing, Element, Depths
      <4> QED
        BY <3>1, <4>1, <4>2
    <3> QED
      BY <3>4, <3>5, <3>6 DEF Place
  <2> QED
    BY <2>1, <2>2
<1> QED
  BY <1>2, <1>3, Zenon DEF Placed

(* A step that leaves the levels and the names of their items alone keeps   *)
(* what is known of them.                                                   *)
LEMMA LevelReadKept ==
    ASSUME Tree, Parsing, Placed, HeapSteps, [Next]_vars, GoesOn, NEW k \in DOMAIN frames, LevelRead(k),
           frames'[k].item = frames[k].item, frames'[k].opener = frames[k].opener,
           frames[k].item # current \/ ~Name
    PROVE  LevelRead(k)' /\ FirstIn(k)' = FirstIn(k) /\ \A o : ListAt(o, k)' = ListAt(o, k)
<1>1. PICK p \in Live : p = frames[k].item
  BY Where
<1>2. /\ text' = text /\ began'[p] = began[p] /\ ValueAt(p)' = ValueAt(p) /\ EndOf(p)' = EndOf(p)
      /\ NoJson' = NoJson
  BY <1>1, PlacesStep, NoJsonKept
<1>3. frames'[k].item = p /\ frames'[k].opener = frames[k].opener
  BY <1>1
<1>4. LevelRead(k)'
  BY <1>1, <1>2, <1>3, Zenon DEF LevelRead
<1> QED
  BY <1>1, <1>2, <1>3, <1>4, Zenon DEF FirstIn, ListAt

(* A list that keeps its items, with what they hold, is still read.          *)
LEMMA ListReadKept ==
    ASSUME Tree, Parsing, Placed, HeapSteps, [Next]_vars, GoesOn, NEW k \in DOMAIN frames,
           LevelRead(k), ListRead(k),
           frames'[k].item = frames[k].item, frames'[k].opener = frames[k].opener,
           frames'[k].head = frames[k].head, frames[k].item # current \/ ~Name,
           NEW e \in Live, e = ElementOf(k), ElementOf(k)' = e, e # current \/ ~Name,
           pc # "name" \/ k # Len(frames)
    PROVE  ListRead(k)'
<1>1. /\ text' = text /\ FirstIn(k)' = FirstIn(k) /\ \A o : ListAt(o, k)' = ListAt(o, k)
  BY LevelReadKept, TextKept, Zenon
<1>2. began'[e] = began[e] /\ (Named(e)' <=> Named(e))
  BY PlacesStep
<1>3. frames[k].head # NULL => began'[frames[k].head] = began[frames[k].head]
  BY Where, BeganStep, Zenon DEF Placed
<1>4. Named(ElementOf(k))' <=> Named(ElementOf(k))
  BY <1>2, Zenon DEF Named
<1> QED
  BY <1>1, <1>2, <1>3, <1>4, Zenon DEF ListRead

(* What has been read of an item stays read.                                *)
LEMMA ItemRead ==
    ASSUME Tree, Placed, Going, TreeRead, HeapSteps, [Next]_vars, GoesOn, NEW i \in Live
    PROVE  /\ i # current \/ ~Name => NameRead(i)'
           /\ ~Partial(i) /\ ~(Close /\ i = Top.item) /\ (i # current \/ pc \notin {"value", "name"}) =>
                 ValueRead(i)' /\ HasChars(i)'
           /\ items[i].next # NULL \/ ~LastSoFar(i) =>
                 (i # current \/ ~Element \/ Top.head = NULL => NextRead(i)')
<1>1. /\ NameRead(i) /\ (~Partial(i) => ValueRead(i) /\ HasChars(i))
      /\ (items[i].next # NULL \/ ~LastSoFar(i) => NextRead(i))
  BY Zenon DEF TreeRead
<1>2. deleting = <<>>
  BY DEF Going, Parsing, Tree, Typed, Freeing
<1>3. Name => pc = "name" /\ pc \in {"value", "name"} /\ ~Close
  BY DEF Name, Close
<1>4. i # current \/ ~Name => NameRead(i)'
  BY <1>1, PlacesStep, Zenon
<1>5. ASSUME ~Partial(i), ~(Close /\ i = Top.item), i # current \/ pc \notin {"value", "name"}
      PROVE  ValueRead(i)' /\ HasChars(i)'
  <2>1. /\ items'[i].type = items[i].type /\ items'[i].value = items[i].value
        /\ items'[i].valuestring = items[i].valuestring /\ items'[i].child = items[i].child
    BY <1>5, ItemStep, Zenon
  <2>2. i # current \/ ~Name
    BY <1>3, <1>5, Zenon
  <2> QED
    BY <1>1, <1>2, <1>5, <2>1, <2>2, ValueKept, Zenon
<1>6. ASSUME items[i].next # NULL \/ ~LastSoFar(i), i # current \/ ~Element \/ Top.head = NULL
      PROVE  NextRead(i)'
  <2>1. i # current \/ ~Name
    <3>1. ASSUME i = current, Name PROVE FALSE
      <4>1. Parsing
        BY <1>3, <3>1 DEF Parsing
      <4> QED
        BY <1>6, <3>1, <4>1, Zenon DEF LastSoFar, Tree, Growing
    <3> QED
      BY <3>1, Zenon
  <2>2. items'[i].next = items[i].next
    BY <1>6, ItemStep, Zenon
  <2> QED
    BY <1>1, <1>6, <2>1, <2>2, NextKept, Zenon
<1> QED
  BY <1>4, <1>5, <1>6, Zenon

(* So does that the root is the text's first value.                         *)
LEMMA RootRead ==
    ASSUME Tree, Rooted, Placed, Going, TreeRead, HeapSteps, [Next]_vars, GoesOn
    PROVE  /\ root' = root /\ root \in Live
           /\ began'[root'] = [at |-> TextAt, depth |-> 0]' /\ ~Named(root)'
<1>1. ~Start /\ root' = root /\ root \in Live
  <2>1. ~Start
    BY DEF Going, Parsing, Start
  <2>2. root # NULL
    BY DEF Going, Tree, Typed, Handles
  <2> QED
    BY <2>1, <2>2, WentOn, Pointers DEF Tree
<1>2. root # current \/ ~Name
  <2> SUFFICES ASSUME Name PROVE root # current
    OBVIOUS
  <2>1. pc = "name" /\ Parsing /\ frames # <<>> /\ Typed /\ Nested
    BY DEF Name, Parsing, Tree, Typed, Levels, Ordered
  <2>2. frames[1].item = root /\ Top.item < current
    BY <2>1, ZenonT(60) DEF Rooted, Tree, Growing
  <2>3. PICK n \in Nat \ {0} : n = Len(frames) /\ DOMAIN frames = 1..n /\ Top = frames[n]
    BY <2>1, Elements, TopFrame DEF Top
  <2>4. n = 1 \/ frames[1].item < frames[n].item
    <3>1. 1 \in DOMAIN frames /\ n \in DOMAIN frames /\ (n = 1 \/ 1 < n)
      BY <2>3
    <3> QED
      BY <2>1, <3>1, Zenon DEF Nested
  <2>5. root \in Nat /\ Top.item \in Nat /\ current \in Nat
    BY <1>1, <2>1, TopFrame, Elements, Zenon DEF Tree, Growing, Frame
  <2> QED
    BY <2>2, <2>3, <2>4, <2>5
<1>3. text' = text /\ began'[root] = began[root] /\ items'[root].string = items[root].string
  BY <1>1, <1>2, PlacesStep
<1>4. began[root] = [at |-> TextAt, depth |-> 0] /\ items[root].string = NULL
  BY Zenon DEF TreeRead, Named
<1>5. TextAt' = TextAt
  BY <1>3, Zenon DEF TextAt
<1>6. began'[root'] = [at |-> TextAt', depth |-> 0]
  BY <1>1, <1>3, <1>4, <1>5, Zenon
<1>7. items'[root'].string = NULL
  BY <1>1, <1>3, <1>4, Zenon
<1> QED
  BY <1>1, <1>6, <1>7, Zenon DEF Named

(* The first value of the text begins where the parser looks for it.        *)
LEMMA StartRead ==
    ASSUME Tree, Rooted, HeapSteps, [Next]_vars, Start, ~NoMemory
    PROVE  Lookup' /\ TreeRead'
<1>1. /\ Typed /\ Cells /\ frames = <<>> /\ Live = {} /\ text \in Texts /\ depth = 0
  BY DEF Tree, Typed, Levels, Rooted, Reading, Start
<1>2. ItemAdded(FALSE)
  BY <1>1, AddsRoot
<1>3. PICK new : new = Fresh
  OBVIOUS
<1>4. Live' = {new} /\ items'[new] = EmptyItem
  BY <1>1, <1>2, <1>3, Zenon DEF ItemAdded
<1>5. /\ root' = new /\ current' = new /\ pc' = "value" /\ frames' = <<>> /\ depth' = 0 /\ text' = text
      /\ offset' = Skip(SkipBom) /\ began'[new] = [at |-> offset', depth |-> 0]
  BY <1>1, <1>3, BeganStep DEF Start
<1>6. offset' = TextAt
  <2>1. PICK o : o = SkipBom
    OBVIOUS
  <2>2. o \in Offsets /\ o = IF TokenOf(text, 0) = "BOM" /\ Len(text) > 2 THEN 1 ELSE 0
    <3>1. Len(text) \in Nat \ {0}
      BY <1>1, TextsAssumption
    <3> QED
      BY <2>1, <3>1 DEF SkipBom, Tok, CanAccess, TokenOf, Offsets
  <2>3. Skip(o) = NextToken(text, o)
    BY <1>1, <2>2, SkipIsNext
  <2> QED
    BY <1>5, <2>1, <2>2, <2>3, Zenon DEF TextAt
<1>7. items'[new].string = NULL /\ items'[new].next = NULL
  BY <1>4 DEF EmptyItem
<1>8. TextAt' = TextAt /\ NoJson' = NoJson
  BY <1>5, NoJsonKept, Zenon DEF TextAt
<1>9. ValueAt(new)' = TextAt /\ (EndOf(new)' = NULL => NoJson)
  <2>1. ~Named(new)' /\ began'[new].at = TextAt /\ began'[new].depth = 0
    BY <1>5, <1>6, <1>7 DEF Named
  <2>2. ValueAt(new)' = TextAt
    BY <2>1, Zenon DEF ValueAt
  <2>3. EndOf(new)' = Grammar[text].value[TextAt, 0]
    BY <1>5, <2>1, <2>2, Zenon DEF EndOf
  <2> QED
    BY <2>2, <2>3, Zenon DEF NoJson
<1>10. Lookup'
  <2>1. AtValue'
    <3>1. offset' = ValueAt(current)'
      BY <1>5, <1>6, <1>9, Zenon DEF ValueAt, Named
    <3>2. began'[current'].depth = depth'
      BY <1>5
    <3>3. EndOf(current)' = EndOf(new)'
      BY <1>5, Zenon DEF EndOf, ValueAt, Named
    <3> QED
      BY <1>8, <1>9, <3>1, <3>2, <3>3, Zenon DEF AtValue
  <2>2. AtToken'
    BY <1>5, <2>1 DEF AtToken
  <2>3. \A k \in DOMAIN frames' : FALSE
    BY <1>5
  <2> QED
    BY <2>2, <2>3, Zenon DEF Lookup
<1>11. TreeRead'
  <2>1. began'[root'] = [at |-> TextAt', depth |-> 0] /\ ~Named(root)'
    BY <1>5, <1>6, <1>7, <1>8, Zenon DEF Named
  <2>2. NameRead(new)'
    BY <1>7, Zenon DEF NameRead, Named
  <2>3. Partial(new)' /\ LastSoFar(new)'
    BY <1>5 DEF Partial, LastSoFar, Parsing
  <2>4. \A i \in Live' : i = new
    BY <1>4
  <2> QED
    BY <1>7, <2>1, <2>2, <2>3, <2>4, Zenon DEF TreeRead
<1> QED
  BY <1>10, <1>11

(* The element that a level is parsing is an item, and stays the same as long *)
(* as the levels do.                                                        *)
LEMMA NextLevel ==
    ASSUME Tree, Parsing, NEW k \in DOMAIN frames
    PROVE  /\ ElementOf(k) \in Live
           /\ frames' = frames /\ current' = current => ElementOf(k)' = ElementOf(k)
           /\ k # depth => /\ k + 1 \in DOMAIN frames /\ ElementOf(k) = frames[k + 1].item
                           /\ frames[k + 1].item # frames[k].item
           /\ k = depth => ElementOf(k) = current
<1>1. /\ depth = Len(frames) /\ DOMAIN frames = 1..depth /\ current \in Live /\ depth \in Nat
      /\ \A j \in DOMAIN frames : frames[j].item \in Live
      /\ \A i \in Live : i \in Nat
  BY Where, Elements DEF Tree, Typed, Levels
<1>2. CASE k = depth
  BY <1>1, <1>2, Zenon DEF ElementOf
<1>3. CASE k # depth
  <2>1. k + 1 \in DOMAIN frames /\ k < k + 1 /\ k \in Nat
    BY <1>1, <1>3
  <2>2. frames[k].item < frames[k + 1].item
    BY <2>1, Zenon DEF Tree, Ordered, Nested
  <2>3. frames[k + 1].item # frames[k].item
    BY <1>1, <2>1, <2>2
  <2> QED
    BY <1>1, <1>3, <2>1, <2>3, Zenon DEF ElementOf
<1> QED
  BY <1>2, <1>3

(* A literal, a number or a string is one token, and hangs on the item as it *)
(* was written.                                                             *)
LEMMA ScalarFilled ==
    ASSUME Tree, ~NoMemory, ~Fail, Literal \/ parse_number \/ StringValue
    PROVE  /\ Here \in Strings \cup Numbers \cup Literals
           /\ Here = CASE items'[current].type = "number" -> items'[current].value
                       [] items'[current].type = "string" -> strings'[items'[current].valuestring]
                       [] OTHER -> items'[current].type
           /\ items'[current].type \notin DOMAIN Closer
           /\ items'[current].type = "string" => items'[current].valuestring # NULL
           /\ pc = "value" /\ pc' = "return" /\ offset' = offset + 1
           /\ frames' = frames /\ current' = current /\ depth' = depth
<1>1. /\ items \in [Live -> Cell] /\ Fresh # NULL /\ Fresh \in Nat
      /\ pc = "value" => current \in Live
  BY DEF Tree, Typed, Cells, Fresh, NULL, Growing, Parsing
<1>2. CASE Literal
  <2>1. /\ items' = [items EXCEPT ![current].type = Here, ![current].value = NULL]
        /\ Here \in Literals /\ pc = "value" /\ pc' = "return" /\ offset' = offset + 1
        /\ frames' = frames /\ current' = current /\ depth' = depth
    BY <1>2, Zenon DEF Literal, Parsed
  <2>2. items'[current].type = Here
    BY <1>1, <2>1 DEF Cell
  <2>3. Here \notin {"number", "string", "[", "{"}
    BY <2>1, Zenon DEF Literals
  <2>4. Here \notin DOMAIN Closer /\ Here # "number" /\ Here # "string"
    BY <2>3, Zenon DEF Closer
  <2> QED
    BY <2>1, <2>2, <2>4, Zenon
<1>3. CASE parse_number
  <2>1. /\ items' = [items EXCEPT ![current].type = "number", ![current].value = Here]
        /\ Here \in Numbers /\ pc = "value" /\ pc' = "return" /\ offset' = offset + 1
        /\ frames' = frames /\ current' = current /\ depth' = depth
    BY <1>3, Zenon DEF parse_number, Parsed
  <2>2. items'[current].type = "number" /\ items'[current].value = Here
    BY <1>1, <2>1 DEF Cell
  <2>3. "number" # "string" /\ "number" \notin DOMAIN Closer
    BY DEF Closer
  <2> QED
    BY <2>1, <2>2, <2>3, Zenon
<1>4. CASE StringValue
  <2>1. /\ items' = [items EXCEPT ![current].type = "string", ![current].valuestring = Fresh]
        /\ strings' = Extend(strings, Fresh, Here)
        /\ Here \in Strings /\ pc = "value" /\ pc' = "return" /\ offset' = offset + 1
        /\ frames' = frames /\ current' = current /\ depth' = depth
    BY <1>4, Zenon DEF StringValue
  <2>2. items'[current].type = "string" /\ items'[current].valuestring = Fresh
    BY <1>1, <2>1 DEF Cell
  <2>3. strings'[Fresh] = Here
    BY <2>1 DEF Extend
  <2>4. "string" # "number" /\ "string" \notin DOMAIN Closer
    BY DEF Closer
  <2> QED
    BY <1>1, <2>1, <2>2, <2>3, <2>4, Zenon
<1> QED
  BY <1>2, <1>3, <1>4

(* Such a value ends one token on, unless the number is not at its end.      *)
LEMMA ScalarRead ==
    ASSUME Tree, Rooted, Placed, Lookup, TreeRead, HeapSteps, [Next]_vars, GoesOn,
           Literal \/ parse_number \/ StringValue
    PROVE  Lookup' /\ TreeRead'
<1>1. /\ ~NoMemory /\ ~Fail
      /\ ~Name /\ ~Element /\ ~Close /\ ~Start
  BY WentOn, Zenon DEF Literal, parse_number, StringValue, Name, Element, Close, Start
<1>2. PICK c : c = current
  OBVIOUS
<1>3. /\ Here \in Strings \cup Numbers \cup Literals
      /\ Here = CASE items'[c].type = "number" -> items'[c].value
                  [] items'[c].type = "string" -> strings'[items'[c].valuestring]
                  [] OTHER -> items'[c].type
      /\ items'[c].type \notin DOMAIN Closer
      /\ items'[c].type = "string" => items'[c].valuestring # NULL
      /\ pc = "value" /\ pc' = "return" /\ offset' = offset + 1
      /\ frames' = frames /\ current' = c /\ depth' = depth
  BY <1>1, <1>2, ScalarFilled, Zenon
<1>4. Parsing /\ Going /\ Parsing' /\ Going'
  BY <1>3 DEF Parsing, Going
<1>5. /\ text \in Texts /\ offset \in Offsets /\ Here = TokenOf(text, offset) /\ c \in Live
      /\ depth \in Depths /\ text' = text /\ Live' = Live
  <2>1. Live' = Live
    BY <1>1, <1>3, LinksKept, WentOn
  <2> QED
    BY <1>2, <1>4, <2>1, Where, TextKept
<1>6. offset = ValueAt(c) /\ began[c].depth = depth
  BY <1>2, <1>3, <1>4, Zenon DEF Lookup, AtToken, AtValue
<1>7. PICK e : e = ScalarEnd(text, offset)
  OBVIOUS
<1>8. /\ EndOf(c) = e /\ ValueAt(c)' = offset /\ EndOf(c)' = e
  <2>1. EndOf(c) = e
    BY <1>3, <1>5, <1>6, <1>7, ScalarEnds, Zenon DEF EndOf
  <2> QED
    BY <1>1, <1>5, <1>6, <2>1, PlacesStep, Zenon
<1>9. /\ e # NULL /\ offset + 1 # 0
      /\ e = offset + 1 \/ (IsCut(text, offset) /\ e = (offset + 1) + 1)
      /\ offset + 1 > 0 /\ (offset + 1) - 1 = offset
  BY <1>5, <1>7 DEF ScalarEnd, Offsets, NULL
<1>10. Lookup'
  <2>1. AtToken'
    <3>1. EndOf(current)' = EndOf(c)'
      BY <1>3, Zenon DEF EndOf, ValueAt, Named
    <3>2. AtReturn'
      BY <1>3, <1>5, <1>8, <1>9, <3>1, Zenon DEF AtReturn, NumberCut
    <3> QED
      BY <1>3, <3>2 DEF AtToken
  <2>2. ASSUME NEW k \in DOMAIN frames PROVE LevelRead(k)' /\ ListRead(k)'
    <3>1. LevelRead(k) /\ ListRead(k)
      BY <1>4, Zenon DEF Lookup
    <3>2. LevelRead(k)'
      BY <1>1, <1>3, <1>4, <3>1, LevelReadKept, Zenon
    <3>3. PICK x : x = ElementOf(k)
      OBVIOUS
    <3>4. x \in Live /\ ElementOf(k)' = x
      BY <1>2, <1>3, <1>4, <3>3, NextLevel, Zenon
    <3>5. frames'[k] = frames[k] /\ pc # "name"
      BY <1>3
    <3> QED
      BY <1>1, <1>4, <3>1, <3>2, <3>3, <3>4, <3>5, ListReadKept, Zenon
  <2> QED
    BY <1>3, <2>1, <2>2, Zenon DEF Lookup
<1>11. TreeRead'
  <2>1. /\ began'[root'] = [at |-> TextAt, depth |-> 0]' /\ ~Named(root)'
        /\ root' = root
    BY <1>4, RootRead, Zenon
  <2>2. \A i \in Live : items'[i].next = items[i].next
    BY <1>1, ItemStep, Zenon
  <2>3. ValueRead(c)' /\ HasChars(c)'
    <3>1. items'[c].child = NULL
      <4>1. items[c].child = NULL
        BY <1>2, <1>3, <1>4, Zenon DEF Tree, Growing
      <4> QED
        BY <1>1, <1>5, <4>1, ItemStep, Zenon
    <3> QED
      BY <1>3, <1>5, <1>8, <1>9, <3>1, Zenon DEF ValueRead, Childs, HasChars
  <2>4. ASSUME NEW i \in Live
        PROVE  /\ Partial(i)' \/ i = c \/ ~Partial(i)
               /\ LastSoFar(i)' <=> LastSoFar(i)
    BY <1>2, <1>3, <1>4, <2>1, Zenon DEF Partial, LastSoFar, OfLevel
  <2>5. ASSUME NEW i \in Live
        PROVE  /\ NameRead(i)' /\ (~Partial(i)' => ValueRead(i)' /\ HasChars(i)')
               /\ items'[i].next # NULL \/ ~LastSoFar(i)' => NextRead(i)'
    BY <1>1, <1>2, <1>4, <2>2, <2>3, <2>4, ItemRead, Zenon
  <2> QED
    BY <1>5, <2>1, <2>5, Zenon DEF TreeRead
<1> QED
  BY <1>10, <1>11

(* A list's first element, or its bracket, is the next token.               *)
LEMMA OpenRead ==
    ASSUME Tree, Rooted, Placed, Lookup, TreeRead, HeapSteps, [Next]_vars, GoesOn, Open
    PROVE  Lookup' /\ TreeRead'
<1>1. ~NoMemory /\ ~Fail /\ ~Name /\ ~Element /\ ~Close /\ ~Start
  BY WentOn, Zenon DEF Open, Name, Element, Close, Start
<1>2. PICK c, f, s : c = current /\ f = [opener |-> Here, item |-> c, head |-> NULL] /\ s = Skip(offset + 1)
  OBVIOUS
<1>3. /\ pc = "value" /\ Here \in DOMAIN Closer /\ ~TooDeep /\ frames' = Append(frames, f)
      /\ \/ offset' = s /\ pc' = "close" /\ Tok(s) = Closer[Here]
         \/ offset' = s - 1 /\ pc' = "element" /\ Tok(s) # Closer[Here]
      /\ current' = c /\ depth' = depth + 1 /\ items' = items
  BY <1>1, <1>2, Zenon DEF Open, heapVars
<1>4. Parsing /\ Going /\ Parsing' /\ Going'
  BY <1>3 DEF Parsing, Going
<1>5. /\ text \in Texts /\ offset \in Offsets /\ Here = TokenOf(text, offset) /\ c \in Live
      /\ depth \in Depths /\ text' = text /\ Live' = Live /\ depth = Len(frames)
      /\ DOMAIN frames = 1..depth /\ frames \in Seq(Frame)
  <2>1. Live' = Live
    BY <1>3, Zenon DEF Live
  <2>2. frames \in Seq(Frame) /\ DOMAIN frames = 1..Len(frames)
    BY Elements DEF Tree, Typed, Levels
  <2> QED
    BY <1>2, <1>4, <2>1, <2>2, Where, TextKept, Zenon
<1>6. depth \in Nat /\ depth < NESTING_LIMIT
  BY <1>3, <1>5, JsonAssumption DEF TooDeep, Depths
<1>7. /\ Len(frames') = depth + 1 /\ DOMAIN frames' = 1..(depth + 1)
      /\ frames'[depth + 1] = f /\ \A k \in 1..depth : frames'[k] = frames[k]
  BY <1>3, <1>5, <1>6
<1>8. f.opener = Here /\ f.item = c /\ f.head = NULL
  BY <1>2
<1>9. Top' = f
  BY <1>7, Zenon DEF Top
<1>10. PICK n : n = depth + 1 /\ n - 1 = depth /\ Len(frames') = n /\ n \in DOMAIN frames'
  BY <1>6, <1>7
<1>11. offset = ValueAt(c) /\ began[c].depth = depth /\ (EndOf(c) = NULL => NoJson)
  BY <1>2, <1>3, <1>4, Zenon DEF Lookup, AtToken, AtValue
<1>12. /\ began'[c] = began[c] /\ ValueAt(c)' = offset /\ EndOf(c)' = EndOf(c) /\ NoJson' = NoJson
  BY <1>1, <1>5, <1>11, PlacesStep, NoJsonKept, Zenon
<1>13. /\ s \in Offsets /\ s = NextToken(text, offset + 1) /\ NextToken(text, s) = s
       /\ Tok(s) = TokenOf(text, s)
  <2>1. TokenOf(text, offset) # "NUL"
    BY <1>3, <1>5, Zenon DEF Closer
  <2>2. offset + 1 \in Offsets
    BY <1>5, <2>1, HasNext
  <2>3. s \in Offsets /\ s = NextToken(text, offset + 1)
    BY <1>2, <1>5, <2>2, SkipIsNext
  <2>4. NextToken(text, s) = s
    BY <1>5, <2>2, <2>3, NextAgain, Zenon
  <2>5. s < Len(text)
    BY <1>5, <2>3, TextsAssumption DEF Offsets
  <2> QED
    BY <2>3, <2>4, <2>5, Zenon DEF Tok, CanAccess, TokenOf
<1>14. FirstIn(n)' = s
  BY <1>5, <1>7, <1>8, <1>10, <1>12, <1>13, Zenon DEF FirstIn, ValueAt, Named
<1>15. Lookup'
  <2>1. ASSUME pc' = "close" PROVE AtToken'
    <3>1. offset' = s /\ TokenOf(text, s) = Closer[Here]
      BY <1>3, <1>13, <2>1
    <3>2. EndOf(c) = s + 1
      <4>1. Grammar[text].value[offset, depth] = s + 1
        BY <1>3, <1>5, <1>6, <1>13, <3>1, ListValue, Zenon
      <4> QED
        BY <1>11, <4>1, Zenon DEF EndOf
    <3>3. EndOf(Top.item)' = EndOf(c)'
      BY <1>8, <1>9, Zenon DEF EndOf, ValueAt, Named
    <3>4. FirstIn(Len(frames))' = offset'
      BY <1>10, <1>14, <3>1, Zenon DEF FirstIn, ValueAt, Named
    <3>5. AtClose'
      BY <1>3, <1>5, <1>8, <1>9, <1>12, <3>1, <3>2, <3>3, <3>4, Zenon DEF AtClose
    <3> QED
      BY <2>1, <3>5 DEF AtToken
  <2>2. ASSUME pc' = "element" PROVE AtToken'
    <3>1. offset' = s - 1 /\ TokenOf(text, s) # Closer[Here]
      BY <1>3, <1>13, <2>2
    <3>2. offset' + 1 = s /\ s < Len(text)
      BY <1>5, <1>13, <3>1, TextsAssumption DEF Offsets
    <3>3. FirstIn(Len(frames))' = s
      BY <1>10, <1>14, Zenon DEF FirstIn, ValueAt, Named
    <3>4. AtElement'
      BY <1>3, <1>5, <1>8, <1>9, <1>13, <3>1, <3>2, <3>3, Zenon DEF AtElement
    <3> QED
      BY <2>2, <3>4 DEF AtToken
  <2>3. AtToken'
    BY <1>3, <2>1, <2>2
  <2>4. ASSUME NEW k \in DOMAIN frames PROVE LevelRead(k)' /\ ListRead(k)'
    <3>1. LevelRead(k) /\ ListRead(k)
      BY <1>4, Zenon DEF Lookup
    <3>2. frames'[k] = frames[k] /\ pc # "name"
      BY <1>3, <1>5, <1>7
    <3>3. LevelRead(k)'
      BY <1>1, <1>4, <3>1, <3>2, LevelReadKept, Zenon
    <3>4. PICK e \in Live : e = ElementOf(k)
      BY <1>4, NextLevel
    <3>5. ElementOf(k)' = e
      <4>1. CASE k = depth
        <5>1. k + 1 = n /\ k # n /\ e = c
          BY <1>2, <1>4, <1>6, <1>10, <3>4, <4>1, NextLevel
        <5> QED
          BY <1>7, <1>8, <1>10, <5>1, Zenon DEF ElementOf
      <4>2. CASE k # depth
        <5>1. k + 1 \in DOMAIN frames /\ e = frames[k + 1].item
          BY <1>4, <3>4, <4>2, NextLevel, Zenon
        <5>2. k + 1 \in 1..depth /\ k # n
          BY <1>5, <1>6, <1>10, <4>2, <5>1
        <5> QED
          BY <1>7, <1>10, <5>1, <5>2, Zenon DEF ElementOf
      <4> QED
        BY <4>1, <4>2
    <3> QED
      BY <1>1, <1>4, <3>1, <3>2, <3>3, <3>4, <3>5, ListReadKept, Zenon
  <2>5. LevelRead(n)' /\ ListRead(n)'
    <3>1. frames'[n] = f
      BY <1>7, <1>10
    <3>2. LevelRead(n)'
      <4>1. began'[c].depth = n - 1 /\ n - 1 < NESTING_LIMIT /\ TokenOf(text', offset) = f.opener
        BY <1>5, <1>6, <1>8, <1>10, <1>11, <1>12, Zenon
      <4>2. EndOf(c)' = NULL => NoJson'
        BY <1>11, <1>12, Zenon
      <4>3. frames'[n].item = c /\ frames'[n].opener = f.opener
        BY <1>8, <3>1
      <4> QED
        BY <1>12, <4>1, <4>2, <4>3, Zenon DEF LevelRead, EndOf, ValueAt, Named
    <3> QED
      BY <1>8, <3>1, <3>2, Zenon DEF ListRead
  <2>6. \A k \in DOMAIN frames' : k \in DOMAIN frames \/ k = n
    BY <1>5, <1>6, <1>7, <1>10
  <2> QED
    BY <2>3, <2>4, <2>5, <2>6, Zenon DEF Lookup
<1>16. TreeRead'
  <2>1. /\ began'[root'] = [at |-> TextAt, depth |-> 0]' /\ ~Named(root)'
        /\ root' = root
    BY <1>4, RootRead, Zenon
  <2>2. ASSUME NEW i \in Live
        PROVE  /\ OfLevel(i)' <=> OfLevel(i) \/ i = c
    <3>1. \A k \in DOMAIN frames' : (k \in DOMAIN frames /\ frames'[k] = frames[k]) \/ k = n
      BY <1>5, <1>6, <1>7, <1>10
    <3>2. \A k \in DOMAIN frames : k \in DOMAIN frames' /\ frames'[k] = frames[k]
      BY <1>5, <1>6, <1>7
    <3> QED
      BY <1>7, <1>8, <1>10, <3>1, <3>2, Zenon DEF OfLevel
  <2>3. pc' \notin {"value", "name"} /\ pc \in {"value", "name"}
    BY <1>3
  <2>4. ASSUME NEW i \in Live
        PROVE  (Partial(i)' <=> Partial(i)) /\ (LastSoFar(i)' <=> LastSoFar(i))
    BY <1>2, <1>3, <1>4, <2>1, <2>2, <2>3, Zenon DEF Partial, LastSoFar
  <2>5. Partial(c)
    BY <1>2, <1>4, <2>3, Zenon DEF Partial
  <2>6. ASSUME NEW i \in Live
        PROVE  /\ NameRead(i)' /\ (~Partial(i)' => ValueRead(i)' /\ HasChars(i)')
               /\ items'[i].next # NULL \/ ~LastSoFar(i)' => NextRead(i)'
    BY <1>1, <1>2, <1>3, <1>4, <2>4, <2>5, ItemRead, Zenon
  <2> QED
    BY <1>5, <2>1, <2>6, Zenon DEF TreeRead
<1> QED
  BY <1>15, <1>16

(* An element begins behind the bracket or the comma.                       *)
LEMMA ElementPlace ==
    ASSUME Tree, Placed, Lookup, TreeRead, pc = "element"
    PROVE  /\ frames # <<>> /\ offset + 1 \in Offsets
           /\ Skip(offset + 1) \in Offsets /\ Skip(offset + 1) = NextToken(text, offset + 1)
           /\ TokenOf(text, FirstIn(depth)) # Closer[Top.opener]
           /\ ListAt(Skip(offset + 1), depth) = ListAt(FirstIn(depth), depth)
           /\ Top.head = NULL => Skip(offset + 1) = FirstIn(depth) /\ current = Top.item
           /\ Top.head # NULL => /\ EndOf(current) # NULL /\ Behind(current) = offset
                                 /\ TokenOf(text, Behind(current)) = ","
<1>1. Parsing /\ Going /\ frames # <<>> /\ pc # "name"
  BY DEF Parsing, Going, Tree, Typed, Levels
<1>2. /\ text \in Texts /\ offset \in Offsets /\ depth = Len(frames) /\ Top = frames[depth]
      /\ depth \in DOMAIN frames /\ current \in Live /\ Len(text) \in Nat
  BY <1>1, Where, TextsAssumption
<1>3. AtElement /\ LevelRead(depth) /\ ListRead(depth) /\ NameRead(current)
  BY <1>1, <1>2, Zenon DEF Lookup, AtToken, TreeRead
<1>4. ASSUME Top.head # NULL
      PROVE  /\ EndOf(current) # NULL /\ Behind(current) = offset /\ TokenOf(text, Behind(current)) = ","
             /\ TokenOf(text, FirstIn(depth)) # Closer[Top.opener]
             /\ ListAt(NextToken(text, offset + 1), depth) = ListAt(FirstIn(depth), depth)
  <2>1. /\ EndOf(current) # NULL /\ Behind(current) = offset /\ TokenOf(text, Behind(current)) = ","
    BY <1>3, <1>4, Zenon DEF AtElement
  <2>2. ListAt(NextToken(text, offset + 1), depth) = ListAt(FirstIn(depth), depth)
    BY <1>1, <1>3, <1>4, <2>1, ListBehind, Zenon
  <2> QED
    BY <1>2, <1>3, <1>4, <2>1, <2>2, Zenon DEF ListRead
<1>5. ASSUME Top.head = NULL
      PROVE  /\ current = Top.item /\ offset + 1 < Len(text)
             /\ TokenOf(text, FirstIn(depth)) # Closer[Top.opener]
             /\ NextToken(text, offset + 1) = FirstIn(depth)
  BY <1>2, <1>3, <1>5, Zenon DEF AtElement
<1>6. offset + 1 \in Offsets
  <2>1. CASE Top.head = NULL
    BY <1>2, <1>5, <2>1 DEF Offsets
  <2>2. CASE Top.head # NULL
    BY <1>2, <1>4, <2>2, HasNext, Zenon
  <2> QED
    BY <2>1, <2>2
<1>7. Skip(offset + 1) \in Offsets /\ Skip(offset + 1) = NextToken(text, offset + 1)
  BY <1>2, <1>6, SkipIsNext
<1> QED
  BY <1>1, <1>4, <1>5, <1>6, <1>7, Zenon

(* What begins there is an element of the list, or the text is no JSON.     *)
LEMMA ElementRead ==
    ASSUME Tree, Rooted, Placed, Lookup, TreeRead, HeapSteps, [Next]_vars, GoesOn, Element
    PROVE  Lookup' /\ TreeRead'
<1>1. ~NoMemory /\ ~Fail /\ ~Name /\ ~Close /\ ~Start /\ pc = "element"
  BY WentOn, Zenon DEF Element, Name, Close, Start
<1>2. PICK c, new, n : c = current /\ new = Fresh /\ n = depth
  OBVIOUS
<1>3. /\ pc' = (IF Top.opener = "[" THEN "value" ELSE "name") /\ current' = new /\ depth' = n
      /\ offset' = Skip(offset + 1) /\ frames' = HeadSet
  BY <1>1, <1>2, Zenon DEF Element, HeadSet
<1>4. Parsing /\ Going /\ Parsing' /\ Going'
  BY <1>1, <1>3 DEF Parsing, Going
<1>5. /\ text \in Texts /\ c \in Live /\ n \in Depths /\ n = Len(frames) /\ frames # <<>>
      /\ Top = frames[n] /\ n \in DOMAIN frames /\ Top.opener \in DOMAIN Closer /\ Top.item \in Live
      /\ text' = text /\ NoJson' = NoJson
  BY <1>1, <1>2, <1>4, Where, TextKept, NoJsonKept DEF Tree, Typed, Levels
<1>6. /\ offset' \in Offsets /\ TokenOf(text, FirstIn(n)) # Closer[Top.opener]
      /\ ListAt(offset', n) = ListAt(FirstIn(n), n)
      /\ Top.head = NULL => offset' = FirstIn(n) /\ c = Top.item
      /\ Top.head # NULL => /\ EndOf(c) # NULL /\ TokenOf(text, Behind(c)) = ","
                            /\ offset' = NextToken(text, Behind(c) + 1)
  BY <1>1, <1>2, <1>3, ElementPlace, Zenon
<1>7. /\ Live' = Live \cup {new} /\ new \notin Live /\ new # NULL
      /\ items'[new].string = NULL /\ items'[new].next = NULL
      /\ began'[new] = [at |-> offset', depth |-> n]
  <2>1. ItemAdded(Top.head # NULL) /\ Cells
    BY <1>1, <1>2, <1>5, AddsElement DEF Tree, Typed
  <2>2. Live' = Live \cup {new} /\ items'[new] \in {EmptyItem, [EmptyItem EXCEPT !.prev = current]}
    BY <1>2, <2>1, Zenon DEF ItemAdded
  <2>3. items'[new].string = NULL /\ items'[new].next = NULL
    BY <2>2 DEF EmptyItem
  <2>4. new \notin Live /\ new # NULL
    BY <1>2, <2>1 DEF Cells, Fresh, NULL
  <2>5. began'[new] = [at |-> offset', depth |-> n]
    BY <1>1, <1>2, BeganStep, Zenon
  <2> QED
    BY <2>2, <2>3, <2>4, <2>5
<1>8. /\ DOMAIN frames' = DOMAIN frames /\ Len(frames') = n
      /\ \A k \in DOMAIN frames : /\ frames'[k].item = frames[k].item
                                  /\ frames'[k].opener = frames[k].opener
                                  /\ k # n => frames'[k].head = frames[k].head
      /\ frames'[n].head = IF Top.head = NULL THEN new ELSE Top.head
  BY <1>2, <1>3, <1>5, Headed DEF Tree
<1>9. /\ ~Named(new)' /\ ValueAt(new)' = offset' /\ EndOf(new)' = Grammar[text].value[offset', n]
  <2>1. began'[new].at = offset' /\ began'[new].depth = n
    BY <1>7
  <2>2. ~Named(new)'
    BY <1>7, Zenon DEF Named
  <2>3. ValueAt(new)' = offset'
    BY <2>1, <2>2, Zenon DEF ValueAt
  <2> QED
    BY <1>5, <2>1, <2>2, <2>3, Zenon DEF EndOf
<1>10. ASSUME NEW k \in DOMAIN frames
       PROVE  /\ LevelRead(k) /\ ListRead(k) /\ NameRead(frames[k].item)
              /\ LevelRead(k)' /\ FirstIn(k)' = FirstIn(k) /\ \A o : ListAt(o, k)' = ListAt(o, k)
  <2>1. LevelRead(k) /\ ListRead(k) /\ NameRead(frames[k].item)
    BY <1>4, Where, Zenon DEF Lookup, TreeRead
  <2> QED
    BY <1>1, <1>4, <1>8, <2>1, LevelReadKept, Zenon
<1>11. ASSUME NEW k \in DOMAIN frames, k # n PROVE ListRead(k)'
  <2>1. PICK e \in Live : e = ElementOf(k)
    BY <1>4, NextLevel
  <2>2. k + 1 \in DOMAIN frames /\ e = frames[k + 1].item
    BY <1>2, <1>4, <1>11, <2>1, NextLevel, Zenon
  <2>3. ElementOf(k)' = e
    BY <1>8, <1>11, <2>2, Zenon DEF ElementOf
  <2>4. pc # "name"
    BY <1>1
  <2> QED
    BY <1>1, <1>4, <1>8, <1>10, <1>11, <2>1, <2>3, <2>4, ListReadKept, Zenon
<1>12. ListRead(n)'
  <2>1. ElementOf(n)' = new
    BY <1>3, <1>8, Zenon DEF ElementOf
  <2>2. began'[frames'[n].head] = [at |-> FirstIn(n), depth |-> n]
    <3>1. CASE Top.head = NULL
      BY <1>6, <1>7, <1>8, <3>1, Zenon
    <3>2. CASE Top.head # NULL
      <4>1. began[Top.head] = [at |-> FirstIn(n), depth |-> n] /\ Top.head \in Live
        BY <1>4, <1>5, <1>10, <3>2, Where, Zenon DEF ListRead
      <4> QED
        BY <1>8, <3>2, <4>1, BeganStep, Zenon DEF Placed
    <3> QED
      BY <3>1, <3>2
  <2>3. began'[new].depth = n /\ began'[new].at = offset'
    BY <1>7
  <2>4. pc' # "name" => Top.opener = "["
    BY <1>3
  <2>5. frames'[n].opener = Top.opener /\ "[" # "{"
    BY <1>5, <1>8
  <2>6. Named(ElementOf(n))' <=> FALSE
    BY <1>9, <2>1, Zenon DEF Named
  <2>7. FirstIn(n)' = FirstIn(n) /\ \A o : ListAt(o, n)' = ListAt(o, n)
    BY <1>5, <1>10, Zenon
  <2>8. TokenOf(text', FirstIn(n)') # Closer[frames'[n].opener]
    BY <1>5, <1>6, <2>5, <2>7, Zenon
  <2>9. ListAt(began[new].at, n)' = ListAt(FirstIn(n), n)'
    BY <1>6, <2>3, <2>5, <2>7, Zenon DEF ListAt
  <2>10. pc' # "name" \/ n # Len(frames') => (Named(ElementOf(n))' <=> frames'[n].opener = "{")
    BY <1>8, <2>4, <2>5, <2>6, Zenon
  <2> QED
    BY <2>1, <2>2, <2>3, <2>7, <2>8, <2>9, <2>10, Zenon DEF ListRead, ListAt
<1>13. AtToken'
  <2>1. ASSUME pc' = "value" PROVE AtValue'
    <3>1. Top.opener = "["
      BY <1>3, <2>1
    <3>2. ASSUME Grammar[text].value[offset', n] = NULL PROVE NoJson
      <4>1. ElementAt(text, offset', "[") = offset' /\ "[" \in DOMAIN Closer
        BY DEF ElementAt, Closer
      <4>2. Grammar[text].list[offset', n, "["] = NULL
        BY <1>5, <1>6, <3>2, <4>1, NoListThere, Zenon
      <4>3. ListAt(FirstIn(n), n) = NULL
        BY <1>5, <1>6, <3>1, <4>2, Zenon DEF ListAt
      <4> QED
        BY <1>4, <1>5, <1>6, <1>10, <4>3, NoList, Zenon
    <3>3. ValueAt(current)' = ValueAt(new)' /\ EndOf(current)' = EndOf(new)'
      BY <1>3, Zenon DEF EndOf, ValueAt, Named
    <3>4. began'[current'].depth = depth'
      BY <1>3, <1>7
    <3> QED
      BY <1>5, <1>9, <3>2, <3>3, <3>4, Zenon DEF AtValue
  <2>2. offset' = began'[current'].at
    BY <1>3, <1>7
  <2>3. pc' = "value" \/ pc' = "name"
    BY <1>3
  <2> QED
    BY <2>1, <2>2, <2>3 DEF AtToken
<1>14. Lookup'
  BY <1>8, <1>10, <1>11, <1>12, <1>13, Zenon DEF Lookup
<1>15. TreeRead'
  <2>1. /\ began'[root'] = [at |-> TextAt, depth |-> 0]' /\ ~Named(root)'
        /\ root' = root
    BY <1>4, RootRead, Zenon
  <2>2. \A i : OfLevel(i)' <=> OfLevel(i)
    BY <1>8, Zenon DEF OfLevel
  <2>3. pc' \in {"value", "name"} /\ pc \notin {"value", "name"}
    BY <1>1, <1>3
  <2>4. Partial(new)' /\ LastSoFar(new)' /\ NameRead(new)'
    <3>1. NameRead(new)'
      BY <1>9, Zenon DEF NameRead, Named
    <3> QED
      BY <1>3, <1>4, <2>3, <3>1, Zenon DEF Partial, LastSoFar
  <2>5. ASSUME NEW i \in Live
        PROVE  /\ Partial(i)' <=> Partial(i)
               /\ LastSoFar(i) <=> LastSoFar(i)' \/ i = c
               /\ i = c /\ Top.head = NULL => LastSoFar(i)'
    <3>1. i # new
      BY <1>7
    <3>2. Partial(i)' <=> Partial(i)
      BY <1>3, <1>4, <2>2, <2>3, <3>1, Zenon DEF Partial
    <3>3. LastSoFar(i)' <=> i = root \/ OfLevel(i)
      BY <1>3, <1>4, <2>1, <2>2, <3>1, Zenon DEF LastSoFar
    <3>4. LastSoFar(i) <=> i = root \/ OfLevel(i) \/ i = c
      BY <1>2, <1>4, Zenon DEF LastSoFar
    <3>5. i = c /\ Top.head = NULL => OfLevel(i)
      BY <1>5, <1>6, Zenon DEF OfLevel
    <3> QED
      BY <3>2, <3>3, <3>4, <3>5, Zenon
  <2>6. Top.head # NULL => NextRead(c)'
    <3> SUFFICES ASSUME Top.head # NULL PROVE NextRead(c)'
      OBVIOUS
    <3>1. items'[c].next = new
      BY <1>2, <1>5, ItemStep
    <3>2. Behind(c)' = Behind(c) /\ began'[c] = began[c]
      BY <1>1, <1>5, PlacesStep
    <3>3. began[c].depth = n
      BY <1>2, <1>4, <1>5, <1>10, NextLevel, Zenon DEF ListRead
    <3> QED
      BY <1>5, <1>6, <1>7, <3>1, <3>2, <3>3, Zenon DEF NextRead
  <2>7. ASSUME NEW i \in Live
        PROVE  /\ NameRead(i)' /\ (~Partial(i)' => ValueRead(i)' /\ HasChars(i)')
               /\ items'[i].next # NULL \/ ~LastSoFar(i)' => NextRead(i)'
    <3>1. NameRead(i)' /\ (~Partial(i)' => ValueRead(i)' /\ HasChars(i)')
      BY <1>1, <1>2, <1>4, <2>3, <2>5, ItemRead, Zenon
    <3>2. CASE i # c \/ Top.head = NULL
      <4>1. items'[i].next = items[i].next
        BY <1>2, <3>2, ItemStep, Zenon
      <4>2. ~LastSoFar(i)' => ~LastSoFar(i)
        BY <2>5, <3>2, Zenon
      <4> QED
        BY <1>2, <1>4, <3>1, <3>2, <4>1, <4>2, ItemRead, Zenon
    <3>3. CASE i = c /\ Top.head # NULL
      BY <2>6, <3>1, <3>3, Zenon
    <3> QED
      BY <3>2, <3>3
  <2>8. items'[new].next = NULL
    BY <1>7
  <2> QED
    BY <1>7, <2>1, <2>4, <2>7, <2>8, Zenon DEF TreeRead
<1> QED
  BY <1>14, <1>15

(* The item whose name is parsed is the last of the last level's list, and   *)
(* not the root, nor the item of a level.                                   *)
LEMMA NamedItem ==
    ASSUME Tree, Rooted, Lookup, pc = "name"
    PROVE  /\ frames # <<>> /\ Top.head # NULL /\ Top.opener = "{" /\ Top = frames[depth]
           /\ \A k \in DOMAIN frames : frames[k].item # current
           /\ began[current].depth = depth /\ began[current].at = offset
           /\ ListAt(began[current].at, depth) = ListAt(FirstIn(depth), depth)
           /\ TokenOf(text, FirstIn(depth)) # Closer["{"]
           /\ items[current].next = NULL
<1>1. Parsing /\ frames # <<>> /\ Top.opener = "{" /\ Top.head # NULL /\ Top.item < current
  BY Zenon DEF Parsing, Tree, Typed, Levels, Rooted, Growing
<1>2. /\ Top = frames[depth] /\ depth \in DOMAIN frames /\ DOMAIN frames = 1..depth /\ depth \in Nat
      /\ current \in Nat /\ \A k \in DOMAIN frames : frames[k].item \in Nat
  BY <1>1, Where, Elements, Zenon DEF Tree, Frame
<1>3. ASSUME NEW k \in DOMAIN frames PROVE frames[k].item # current
  <2>1. k = depth \/ k < depth
    BY <1>2
  <2>2. k = depth \/ frames[k].item < frames[depth].item
    BY <1>2, <2>1, Zenon DEF Tree, Ordered, Nested
  <2>3. frames[depth].item < current
    BY <1>1, <1>2, Zenon
  <2>4. /\ current \in Nat /\ frames[k].item \in Nat /\ frames[depth].item \in Nat
    BY <1>2
  <2> QED
    BY <2>2, <2>3, <2>4
<1>4. ListRead(depth) /\ offset = began[current].at /\ ElementOf(depth) = current
  BY <1>1, <1>2, NextLevel, Zenon DEF Lookup, AtToken
<1>5. items[current].next = NULL
  BY <1>1, Zenon DEF Tree, Growing
<1> QED
  BY <1>1, <1>2, <1>3, <1>4, <1>5, Zenon DEF ListRead

(* A member is a name, a colon and a value, or the text is no JSON.         *)
LEMMA NameReadStep ==
    ASSUME Tree, Rooted, Placed, Lookup, TreeRead, HeapSteps, [Next]_vars, GoesOn, Name
    PROVE  Lookup' /\ TreeRead'
<1>1. ~NoMemory /\ ~Fail /\ ~Element /\ ~Close /\ ~Start /\ pc = "name"
  BY WentOn, Zenon DEF Element, Name, Close, Start
<1>2. PICK c, new, n, s : c = current /\ new = Fresh /\ n = depth /\ s = Skip(offset + 1)
  OBVIOUS
<1>3. /\ Here \in Strings /\ strings' = Extend(strings, new, Here)
      /\ items' = [items EXCEPT ![c].type = "string", ![c].string = new]
      /\ Tok(s) = ":" /\ offset' = Skip(s + 1) /\ pc' = "value"
      /\ frames' = frames /\ current' = c /\ depth' = n
  <2>1. pc' # "fail"
    BY DEF GoesOn
  <2> QED
    BY <1>1, <1>2, <2>1, Zenon DEF Name
<1>4. Parsing /\ Going /\ Parsing' /\ Going' /\ frames # <<>>
  BY <1>1, <1>3 DEF Parsing, Going, Tree, Typed, Levels
<1>5. /\ text \in Texts /\ c \in Live /\ n \in Depths /\ n = Len(frames)
      /\ Top = frames[n] /\ n \in DOMAIN frames /\ offset \in Offsets /\ Here = TokenOf(text, offset)
      /\ text' = text /\ NoJson' = NoJson /\ Live' = Live
  <2>1. Live' = Live
    BY <1>1, LinksKept, WentOn
  <2> QED
    BY <1>2, <1>4, <2>1, Where, TextKept, NoJsonKept, Zenon
<1>6. /\ Top.head # NULL /\ Top.opener = "{" /\ \A k \in DOMAIN frames : frames[k].item # c
      /\ began[c].depth = n /\ began[c].at = offset /\ ListAt(offset, n) = ListAt(FirstIn(n), n)
      /\ TokenOf(text, FirstIn(n)) # Closer[Top.opener] /\ items[c].next = NULL
  BY <1>1, <1>2, NamedItem, Zenon
<1>7. /\ s = NextToken(text, offset + 1) /\ TokenOf(text, s) = ":" /\ HasName(text, offset)
      /\ offset' = BehindName(text, offset) /\ offset' \in Offsets
  <2>1. offset + 1 \in Offsets
    <3>1. TokenOf(text, offset) # "NUL"
      BY <1>3, <1>5, TextsAssumption, Zenon DEF Others, Space
    <3> QED
      BY <1>5, <3>1, HasNext
  <2>2. s = NextToken(text, offset + 1) /\ s \in Offsets
    BY <1>2, <1>5, <2>1, SkipIsNext
  <2>3. TokenOf(text, s) = Tok(s)
    BY <1>5, <2>2, TextsAssumption DEF Tok, CanAccess, TokenOf, Offsets
  <2>4. HasName(text, offset)
    BY <1>3, <1>5, <2>2, <2>3, Zenon DEF HasName
  <2>5. s + 1 \in Offsets /\ BehindName(text, offset) \in Offsets
    BY <1>5, <2>2, <2>4, BehindNameIn
  <2>6. offset' = NextToken(text, s + 1)
    BY <1>3, <1>5, <2>5, SkipIsNext
  <2> QED
    BY <1>3, <2>2, <2>3, <2>4, <2>5, <2>6, Zenon DEF BehindName
<1>8. /\ items'[c].string = new /\ new # NULL /\ items'[c].next = NULL /\ began'[c] = began[c]
      /\ strings'[new] = Here
  <2>1. items \in [Live -> Cell] /\ new # NULL
    BY <1>2 DEF Tree, Typed, Cells, Fresh, NULL
  <2>2. items'[c].string = new
    BY <1>3, <1>5, <2>1 DEF Cell
  <2>3. items'[c].next = NULL
    BY <1>1, <1>5, <1>6, ItemStep, Zenon
  <2>4. strings'[new] = Here
    BY <1>3 DEF Extend
  <2>5. began'[c] = began[c]
    BY <1>5, BeganStep, Zenon DEF Placed
  <2> QED
    BY <2>1, <2>2, <2>3, <2>4, <2>5, Zenon
<1>9. Named(c)' /\ ValueAt(c)' = offset' /\ EndOf(c)' = Grammar[text].value[offset', n]
  <2>1. Named(c)'
    BY <1>8, Zenon DEF Named
  <2>2. ValueAt(c)' = offset'
    BY <1>5, <1>6, <1>7, <1>8, <2>1, Zenon DEF ValueAt
  <2> QED
    BY <1>5, <1>6, <1>8, <2>1, <2>2, Zenon DEF EndOf
<1>10. ASSUME NEW k \in DOMAIN frames
       PROVE  /\ LevelRead(k) /\ ListRead(k) /\ NameRead(frames[k].item)
              /\ LevelRead(k)' /\ FirstIn(k)' = FirstIn(k) /\ \A o : ListAt(o, k)' = ListAt(o, k)
  <2>1. LevelRead(k) /\ ListRead(k) /\ NameRead(frames[k].item)
    BY <1>4, Where, Zenon DEF Lookup, TreeRead
  <2>2. frames'[k] = frames[k] /\ frames[k].item # current
    BY <1>2, <1>3, <1>6, Zenon
  <2> QED
    BY <1>4, <2>1, <2>2, LevelReadKept, Zenon
<1>11. ASSUME NEW k \in DOMAIN frames, k # n PROVE ListRead(k)'
  <2>1. PICK e \in Live : e = ElementOf(k)
    BY <1>4, NextLevel
  <2>2. k + 1 \in DOMAIN frames /\ e = frames[k + 1].item
    BY <1>2, <1>4, <1>11, <2>1, NextLevel, Zenon
  <2>3. ElementOf(k)' = e /\ e # current /\ frames[k].item # current
    BY <1>2, <1>3, <1>4, <1>6, <2>1, <2>2, NextLevel, Zenon
  <2>4. frames'[k] = frames[k] /\ k # Len(frames)
    BY <1>3, <1>5, <1>11
  <2> QED
    BY <1>4, <1>10, <2>1, <2>3, <2>4, ListReadKept, Zenon
<1>12. ListRead(n)'
  <2>1. ElementOf(n)' = c
    BY <1>3, <1>5, Zenon DEF ElementOf
  <2>2. began'[frames'[n].head] = [at |-> FirstIn(n), depth |-> n]
    <3>1. began[Top.head] = [at |-> FirstIn(n), depth |-> n] /\ Top.head \in Live
      BY <1>4, <1>5, <1>6, <1>10, Where, Zenon DEF ListRead
    <3> QED
      BY <1>3, <1>5, <3>1, BeganStep, Zenon DEF Placed
  <2>3. began'[c].depth = n /\ began'[c].at = offset
    BY <1>6, <1>8, Zenon
  <2>4. frames'[n] = Top
    BY <1>3, <1>5
  <2>5. Named(ElementOf(n))' <=> TRUE
    BY <1>9, <2>1, Zenon DEF Named
  <2>6. FirstIn(n)' = FirstIn(n) /\ \A o : ListAt(o, n)' = ListAt(o, n)
    BY <1>5, <1>10, Zenon
  <2>7. ListAt(began[c].at, n)' = ListAt(FirstIn(n), n)'
    BY <1>5, <1>6, <2>3, <2>4, <2>6, Zenon DEF ListAt
  <2> QED
    BY <1>5, <1>6, <2>1, <2>2, <2>3, <2>4, <2>5, <2>6, <2>7, Zenon DEF ListRead, ListAt
<1>13. AtToken'
  <2>1. ASSUME Grammar[text].value[offset', n] = NULL PROVE NoJson
    <3>1. ElementAt(text, offset, "{") = offset' /\ "{" \in DOMAIN Closer
      BY <1>7 DEF ElementAt, Closer
    <3>2. Grammar[text].list[offset, n, "{"] = NULL
      BY <1>5, <2>1, <3>1, NoListThere, Zenon
    <3>3. ListAt(FirstIn(n), n) = NULL
      BY <1>5, <1>6, <3>2, Zenon DEF ListAt
    <3> QED
      BY <1>4, <1>5, <1>6, <1>10, <3>3, NoList, Zenon
  <2>2. ValueAt(current)' = ValueAt(c)' /\ EndOf(current)' = EndOf(c)'
    BY <1>3, Zenon DEF EndOf, ValueAt, Named
  <2>3. began'[current'].depth = depth'
    BY <1>3, <1>6, <1>8, Zenon
  <2>4. AtValue'
    BY <1>5, <1>9, <2>1, <2>2, <2>3, Zenon DEF AtValue
  <2> QED
    BY <1>3, <2>4 DEF AtToken
<1>14. Lookup'
  BY <1>3, <1>10, <1>11, <1>12, <1>13, Zenon DEF Lookup
<1>15. TreeRead'
  <2>1. /\ began'[root'] = [at |-> TextAt, depth |-> 0]' /\ ~Named(root)'
        /\ root' = root
    BY <1>4, RootRead, Zenon
  <2>2. NameRead(c)'
    <3>1. TokenOf(text, offset) = strings'[items'[c].string]
      BY <1>5, <1>8, Zenon
    <3> QED
      BY <1>5, <1>6, <1>7, <1>8, <3>1, Zenon DEF NameRead
  <2>3. pc' \in {"value", "name"} /\ pc \in {"value", "name"}
    BY <1>1, <1>3
  <2>4. ASSUME NEW i \in Live
        PROVE  (Partial(i)' <=> Partial(i)) /\ (LastSoFar(i)' <=> LastSoFar(i))
    BY <1>2, <1>3, <1>4, <2>1, <2>3, Zenon DEF Partial, LastSoFar, OfLevel
  <2>5. Partial(c)' /\ LastSoFar(c)'
    BY <1>3, <1>4, <2>3, Zenon DEF Partial, LastSoFar
  <2>6. ASSUME NEW i \in Live
        PROVE  /\ NameRead(i)' /\ (~Partial(i)' => ValueRead(i)' /\ HasChars(i)')
               /\ items'[i].next # NULL \/ ~LastSoFar(i)' => NextRead(i)'
    <3>1. CASE i = c
      BY <1>8, <2>2, <2>5, <3>1, Zenon
    <3>2. CASE i # c
      <4>1. items'[i].next = items[i].next
        BY <1>1, ItemStep, Zenon
      <4> QED
        BY <1>1, <1>2, <1>4, <2>4, <3>2, <4>1, ItemRead, Zenon
    <3> QED
      BY <3>1, <3>2
  <2> QED
    BY <1>5, <2>1, <2>6, Zenon DEF TreeRead
<1> QED
  BY <1>14, <1>15

(* What is left of a number is neither a comma nor a bracket.                *)
LEMMA CutFails ==
    ASSUME Tree, Return, frames # <<>>, NumberCut
    PROVE  pc' = "fail" /\ NumberCut'
<1>1. Parsing
  BY Zenon DEF Return, Parsing
<1>2. /\ text \in Texts /\ offset \in Offsets /\ Here = TokenOf(text, offset)
      /\ Top.opener \in DOMAIN Closer
  BY <1>1, Where
<1>3. Here \notin Others
  <2>1. (offset - 1) + 1 = offset
    BY <1>2 DEF Offsets
  <2> QED
    BY <1>2, <2>1, TextsAssumption, Zenon DEF NumberCut, IsCut
<1>4. NextToken(text, offset) = offset
  <2>1. offset \in offset..(Len(text) - 1) /\ \A k \in offset..(offset - 1) : FALSE
    BY <1>2, TextsAssumption DEF Offsets
  <2>2. TokenOf(text, offset) \notin Space
    BY <1>2, <1>3, Zenon DEF Others
  <2> QED
    BY <1>2, <2>1, <2>2, NextTokenIs, Zenon
<1>5. Skip(offset) = offset
  BY <1>2, <1>4, SkipIsNext, Zenon
<1>6. Tok(offset) # "," /\ Tok(offset) # Closer[Top.opener]
  <2>1. "," \in Others /\ Closer[Top.opener] \in Others
    BY <1>2, Zenon DEF Others, Closer
  <2> QED
    BY <1>3, <2>1, Zenon DEF Here
<1>7. pc' = "fail" /\ offset' = offset /\ text' = text
  BY <1>5, <1>6, Zenon DEF Return
<1> QED
  BY <1>7, Zenon DEF NumberCut

(* Behind an element is a comma or the bracket of its list, or the text is   *)
(* no JSON.                                                                 *)
LEMMA ReturnPlace ==
    ASSUME Tree, Placed, Lookup, TreeRead, pc = "return", frames # <<>>, EndOf(current) = offset
    PROVE  /\ Top.head # NULL /\ EndOf(current) # NULL
           /\ Skip(offset) = Behind(current) /\ Behind(current) \in Offsets /\ Behind(current) # NULL
           /\ Tok(Skip(offset)) = TokenOf(text, Behind(current))
           /\ TokenOf(text, FirstIn(depth)) # Closer[Top.opener]
           /\ TokenOf(text, Behind(current)) # "," =>
                 ListAt(FirstIn(depth), depth) =
                    IF TokenOf(text, Behind(current)) = Closer[Top.opener] THEN Behind(current) ELSE NULL
<1>1. Parsing /\ Going /\ Top.head # NULL /\ pc # "name"
  BY Zenon DEF Parsing, Going, Tree, Growing
<1>2. /\ text \in Texts /\ current \in Live /\ depth \in DOMAIN frames /\ Top = frames[depth]
      /\ offset \in Offsets
  BY <1>1, Where, Zenon
<1>3. EndOf(current) = offset /\ offset # 0 /\ ListRead(depth) /\ NameRead(current)
  BY <1>1, <1>2, Zenon DEF Lookup, AtToken, AtReturn, TreeRead
<1>4. Skip(offset) = Behind(current) /\ Behind(current) \in Offsets /\ offset <= Behind(current)
  BY <1>2, <1>3, ValueAtIn, Zenon DEF Placed
<1>5. Behind(current) # NULL
  <2>1. PICK b \in Offsets : b = Behind(current)
    BY <1>4
  <2>2. offset <= b
    BY <1>4, <2>1
  <2>3. b # 0
    BY <1>2, <1>3, <2>2 DEF Offsets
  <2> QED
    BY <2>1, <2>3 DEF NULL
<1>6. Tok(Skip(offset)) = TokenOf(text, Behind(current))
  <2>1. PICK b \in Offsets : b = Behind(current)
    BY <1>4
  <2>2. Tok(b) = TokenOf(text, b)
    BY <1>2, TextsAssumption DEF Tok, CanAccess, TokenOf, Offsets
  <2> QED
    BY <1>4, <2>1, <2>2, Zenon
<1>7. EndOf(current) # NULL
  BY <1>3 DEF NULL
<1>8. TokenOf(text, FirstIn(depth)) # Closer[Top.opener]
  BY <1>1, <1>2, <1>3, Zenon DEF ListRead
<1> QED
  BY <1>1, <1>2, <1>3, <1>4, <1>5, <1>6, <1>7, <1>8, ListBehind, Zenon

LEMMA ReturnRead ==
    ASSUME Tree, Rooted, Placed, Lookup, TreeRead, HeapSteps, [Next]_vars, GoesOn, Return
    PROVE  Lookup' /\ TreeRead'
<1>1. ~NoMemory /\ ~Fail /\ ~Name /\ ~Element /\ ~Close /\ ~Start /\ pc = "return"
  BY WentOn, Zenon DEF Return, Element, Name, Close, Start
<1>2. PICK c : c = current
  OBVIOUS
<1>3. /\ frames' = frames /\ current' = c /\ depth' = depth /\ items' = items /\ root' = root
  BY <1>1, <1>2, Zenon DEF Return, heapVars
<1>4. Parsing /\ Going
  BY <1>1 DEF Parsing, Going
<1>5. /\ text \in Texts /\ c \in Live /\ text' = text /\ Live' = Live /\ NoJson' = NoJson
  <2>1. Live' = Live
    BY <1>3, Zenon DEF Live
  <2> QED
    BY <1>2, <1>4, <2>1, Where, TextKept, NoJsonKept, Zenon
<1>6. /\ ValueAt(c)' = ValueAt(c) /\ EndOf(c)' = EndOf(c) /\ Behind(c)' = Behind(c)
  BY <1>1, <1>5, PlacesStep, Zenon
<1>7. /\ began'[root'] = [at |-> TextAt, depth |-> 0]' /\ ~Named(root)'
  BY <1>4, RootRead, Zenon
<1>8. CASE frames = <<>>
  <2>1. pc' = "search" /\ ~Parsing' /\ Going'
    BY <1>1, <1>8 DEF Return, Parsing, Going
  <2>2. current = root /\ \A k \in DOMAIN frames : FALSE
    <3>1. current = root
      BY <1>4, <1>8, Zenon DEF Rooted
    <3>2. \A k \in DOMAIN frames : FALSE
      BY <1>8
    <3> QED
      BY <3>1, <3>2
  <2>3. pc \notin {"value", "name"}
    BY <1>1
  <2>4. ASSUME NEW i \in Live PROVE ~Partial(i) /\ (LastSoFar(i)' <=> LastSoFar(i))
    BY <1>3, <2>1, <2>2, <2>3, Zenon DEF Partial, LastSoFar, OfLevel
  <2>5. ASSUME NEW i \in Live
        PROVE  /\ NameRead(i)' /\ (~Partial(i)' => ValueRead(i)' /\ HasChars(i)')
               /\ items'[i].next # NULL \/ ~LastSoFar(i)' => NextRead(i)'
    BY <1>1, <1>3, <1>4, <2>3, <2>4, ItemRead, Zenon
  <2>6. TreeRead'
    BY <1>5, <1>7, <2>5, Zenon DEF TreeRead
  <2> QED
    BY <2>1, <2>6, Zenon DEF Lookup
<1>9. CASE frames # <<>>
  <2>1. PICK n, b : n = depth /\ b = Behind(c)
    OBVIOUS
  <2>2. /\ Top.head # NULL /\ EndOf(c) # NULL /\ Skip(offset) = b /\ b \in Offsets /\ b # NULL
        /\ Tok(Skip(offset)) = TokenOf(text, b)
        /\ TokenOf(text, FirstIn(n)) # Closer[Top.opener]
        /\ TokenOf(text, b) # "," =>
              ListAt(FirstIn(n), n) = IF TokenOf(text, b) = Closer[Top.opener] THEN b ELSE NULL
    <3>1. ~NumberCut
      BY <1>9, CutFails DEF GoesOn
    <3>2. EndOf(current) = offset
      BY <1>1, <1>4, <3>1, Zenon DEF Lookup, AtToken, AtReturn
    <3> QED
      BY <1>1, <1>2, <1>9, <2>1, <3>2, ReturnPlace, Zenon
  <2>3. /\ offset' = b
        /\ \/ pc' = "element" /\ TokenOf(text, b) = ","
           \/ pc' = "close" /\ TokenOf(text, b) = Closer[Top.opener] /\ TokenOf(text, b) # ","
    <3>1. /\ offset' = Skip(offset)
          /\ pc' = CASE Tok(Skip(offset)) = "," -> "element"
                     [] Tok(Skip(offset)) = Closer[Top.opener] -> "close"
                     [] OTHER -> "fail"
      BY <1>9, Zenon DEF Return
    <3>2. pc' # "fail"
      BY DEF GoesOn
    <3>3. Closer[Top.opener] # ","
      BY <1>4, <1>9, Where, Zenon DEF Closer
    <3> QED
      BY <2>2, <3>1, <3>2, <3>3, Zenon
  <2>4. Parsing' /\ Going' /\ pc' \notin {"value", "name"} /\ pc \notin {"value", "name"} /\ pc # "name"
    BY <1>1, <2>3, Zenon DEF Parsing, Going
  <2>5. Top = frames[n] /\ n \in DOMAIN frames /\ n = Len(frames) /\ Top.item \in Live
    BY <1>4, <1>9, <2>1, Where
  <2>6. ASSUME NEW k \in DOMAIN frames
        PROVE  /\ LevelRead(k) /\ ListRead(k) /\ NameRead(frames[k].item)
               /\ LevelRead(k)' /\ FirstIn(k)' = FirstIn(k) /\ ListRead(k)'
    <3>1. LevelRead(k) /\ ListRead(k) /\ NameRead(frames[k].item)
      BY <1>4, Where, Zenon DEF Lookup, TreeRead
    <3>2. LevelRead(k)' /\ FirstIn(k)' = FirstIn(k)
      BY <1>1, <1>3, <1>4, <3>1, LevelReadKept, Zenon
    <3>3. PICK e \in Live : e = ElementOf(k)
      BY <1>4, NextLevel
    <3>4. ElementOf(k)' = e
      BY <1>2, <1>3, <1>4, <3>3, NextLevel, Zenon
    <3> QED
      BY <1>1, <1>3, <1>4, <2>4, <3>1, <3>2, <3>3, <3>4, ListReadKept, Zenon
  <2>7. ASSUME pc' = "element" PROVE AtElement'
    <3>1. Top'.head # NULL
      BY <1>3, <2>2, Zenon DEF Top
    <3>2. EndOf(current)' # NULL /\ Behind(current)' = b
      BY <1>3, <1>6, <2>1, <2>2, Zenon DEF Behind, EndOf, ValueAt, Named
    <3>3. TokenOf(text, b) = ","
      BY <2>3, <2>7, Zenon
    <3> QED
      BY <1>5, <2>3, <3>1, <3>2, <3>3, Zenon DEF AtElement
  <2>8. ASSUME pc' = "close" PROVE AtClose'
    <3>1. TokenOf(text, b) = Closer[Top.opener] /\ TokenOf(text, b) # ","
      BY <2>3, <2>8, Zenon
    <3>2. PICK p \in Live : p = Top.item
      BY <2>5
    <3>3. EndOf(p) = b + 1
      <4>1. ListAt(FirstIn(n), n) = b
        BY <2>2, <3>1, Zenon
      <4> QED
        BY <1>4, <2>2, <2>5, <2>6, <3>2, <4>1, LevelEnds, Zenon
    <3>4. EndOf(p)' = EndOf(p)
      BY <1>1, PlacesStep, Zenon
    <3>5. Top' = Top
      BY <1>3, Zenon DEF Top
    <3>6. EndOf(Top.item)' = b + 1
      BY <3>2, <3>3, <3>4, <3>5, Zenon DEF EndOf, ValueAt, Named
    <3>7. EndOf(current)' # NULL /\ Behind(current)' = b
      BY <1>3, <1>6, <2>1, <2>2, Zenon DEF Behind, EndOf, ValueAt, Named
    <3> QED
      BY <1>5, <2>2, <2>3, <3>1, <3>5, <3>6, <3>7, Zenon DEF AtClose
  <2>9. AtToken'
    BY <2>3, <2>7, <2>8, Zenon DEF AtToken
  <2>10. Lookup'
    BY <1>3, <2>6, <2>9, Zenon DEF Lookup
  <2>11. ASSUME NEW i \in Live
         PROVE  (Partial(i)' <=> Partial(i)) /\ (LastSoFar(i)' <=> LastSoFar(i))
    BY <1>2, <1>3, <1>4, <2>4, Zenon DEF Partial, LastSoFar, OfLevel
  <2>12. ASSUME NEW i \in Live
         PROVE  /\ NameRead(i)' /\ (~Partial(i)' => ValueRead(i)' /\ HasChars(i)')
                /\ items'[i].next # NULL \/ ~LastSoFar(i)' => NextRead(i)'
    BY <1>1, <1>3, <1>4, <2>4, <2>11, ItemRead, Zenon
  <2>13. TreeRead'
    BY <1>5, <1>7, <2>12, Zenon DEF TreeRead
  <2> QED
    BY <2>10, <2>13
<1> QED
  BY <1>8, <1>9

(* A list ends with its bracket.                                            *)
LEMMA CloseRead ==
    ASSUME Tree, Rooted, Placed, Lookup, TreeRead, HeapSteps, [Next]_vars, GoesOn, Close
    PROVE  Lookup' /\ TreeRead'
<1>1. ~NoMemory /\ ~Fail /\ ~Name /\ ~Element /\ ~Start /\ pc = "close"
  BY WentOn, Zenon DEF Element, Name, Close, Start
<1>2. PICK c, p, n : c = current /\ p = Top.item /\ n = depth
  OBVIOUS
<1>3. /\ pc' = "return" /\ frames' = Pop /\ current' = p /\ depth' = n - 1 /\ offset' = offset + 1
  BY <1>2, Zenon DEF Close, Shallower
<1>4. Parsing /\ Going /\ Parsing' /\ Going' /\ frames # <<>>
  BY <1>1, <1>3 DEF Parsing, Going, Tree, Typed, Levels
<1>5. /\ text \in Texts /\ c \in Live /\ p \in Live /\ n = Len(frames) /\ n \in DOMAIN frames
      /\ Top = frames[n] /\ offset \in Offsets /\ DOMAIN frames = 1..n /\ n \in Nat
      /\ Top.opener \in DOMAIN Closer
  BY <1>2, <1>4, Where, Elements DEF Tree
<1>6. text' = text /\ NoJson' = NoJson /\ Live' = Live
  <2>1. ListClosed
    BY <1>4, ClosesList DEF Tree, Growing, Close
  <2> QED
    BY <2>1, TextKept, NoJsonKept, Zenon DEF ListClosed
<1>7. /\ Len(frames') = n - 1 /\ DOMAIN frames' = DOMAIN frames \ {n}
      /\ \A k \in DOMAIN frames' : frames'[k] = frames[k]
  <2>1. frames' # frames
    <3>1. Len(frames') = n - 1 /\ n - 1 # n
      BY <1>3, <1>4, <1>5, Popped DEF Tree
    <3> QED
      BY <1>5, <3>1
  <2>2. ~Open
    BY <1>1 DEF Open
  <2> QED
    BY <1>1, <1>5, <2>1, <2>2, FramesStep, Zenon
<1>8. ASSUME NEW k \in DOMAIN frames PROVE LevelRead(k) /\ ListRead(k)
  BY <1>4, Zenon DEF Lookup
<1>9. /\ TokenOf(text, offset) = Closer[Top.opener] /\ EndOf(p) = offset + 1
      /\ Top.head = NULL => c = p /\ FirstIn(n) = offset
      /\ Top.head # NULL => EndOf(c) # NULL /\ Behind(c) = offset
  BY <1>1, <1>2, <1>4, <1>5, Zenon DEF Lookup, AtToken, AtClose
<1>10. offset + 1 # 0 /\ offset + 1 # NULL
  BY <1>5 DEF Offsets, NULL
<1>11. \A i \in Live : /\ ValueAt(i)' = ValueAt(i) /\ EndOf(i)' = EndOf(i) /\ Behind(i)' = Behind(i)
                       /\ began'[i] = began[i] /\ items'[i].next = items[i].next
  BY <1>1, PlacesStep, ItemStep, Zenon
<1>12. /\ items'[p].type = Top.opener /\ items'[p].child = Top.head
  BY <1>2, <1>5, ItemStep, Zenon
<1>13. \A k \in DOMAIN frames' : frames[k].item # p
  <2>1. ASSUME NEW k \in DOMAIN frames' PROVE frames[k].item # p
    <3>1. k \in 1..n /\ k < n
      BY <1>5, <1>7, <2>1
    <3>2. frames[k].item < frames[n].item
      BY <1>5, <3>1, Zenon DEF Tree, Ordered, Nested
    <3>3. frames[k].item \in Nat /\ frames[n].item \in Nat /\ frames[n].item = p
      BY <1>2, <1>5, <3>1, Elements, Zenon DEF Tree, Frame
    <3> QED
      BY <3>2, <3>3
  <2> QED
    BY <2>1
<1>14. Lookup'
  <2>1. ASSUME NEW k \in DOMAIN frames' PROVE LevelRead(k)' /\ ListRead(k)'
    <3>1. k \in DOMAIN frames /\ k # n /\ frames'[k] = frames[k] /\ pc # "name"
      BY <1>1, <1>7
    <3>2. LevelRead(k)'
      BY <1>1, <1>4, <1>8, <3>1, LevelReadKept, Zenon
    <3>3. PICK e \in Live : e = ElementOf(k)
      BY <1>4, <3>1, NextLevel
    <3>4. k + 1 \in DOMAIN frames /\ e = frames[k + 1].item
      BY <1>2, <1>4, <3>1, <3>3, NextLevel, Zenon
    <3>5. ElementOf(k)' = e
      <4>1. CASE k = n - 1
        <5>1. k + 1 = n
          BY <1>5, <4>1
        <5> QED
          BY <1>2, <1>3, <1>5, <1>7, <3>4, <4>1, <5>1, Zenon DEF ElementOf
      <4>2. CASE k # n - 1
        <5>1. k + 1 \in DOMAIN frames'
          BY <1>5, <1>7, <3>4, <4>2
        <5> QED
          BY <1>7, <3>4, <4>2, <5>1, Zenon DEF ElementOf
      <4> QED
        BY <4>1, <4>2
    <3> QED
      BY <1>1, <1>4, <1>8, <3>1, <3>2, <3>3, <3>5, ListReadKept, Zenon
  <2>2. AtToken'
    <3>1. EndOf(current)' = EndOf(p)'
      BY <1>3, Zenon DEF EndOf, ValueAt, Named
    <3>2. EndOf(current)' = offset' /\ offset' # 0
      BY <1>3, <1>5, <1>9, <1>10, <1>11, <3>1, Zenon
    <3> QED
      BY <1>3, <3>2 DEF AtToken, AtReturn
  <2> QED
    BY <2>1, <2>2, Zenon DEF Lookup
<1>15. TreeRead'
  <2>1. /\ began'[root'] = [at |-> TextAt, depth |-> 0]' /\ ~Named(root)'
        /\ root' = root
    BY <1>4, RootRead, Zenon
  <2>2. pc' \notin {"value", "name"} /\ pc \notin {"value", "name"}
    BY <1>1, <1>3
  <2>3. ASSUME NEW i \in Live
        PROVE  /\ i # p => (Partial(i)' <=> Partial(i))
               /\ i # c \/ c = p => (LastSoFar(i)' <=> LastSoFar(i))
    <3>1. OfLevel(i) <=> OfLevel(i)' \/ i = p
      <4>1. \A k \in DOMAIN frames : k \in DOMAIN frames' \/ k = n
        BY <1>7
      <4> QED
        BY <1>2, <1>5, <1>7, <4>1, Zenon DEF OfLevel
    <3> QED
      BY <1>2, <1>3, <1>4, <2>1, <2>2, <3>1, Zenon DEF Partial, LastSoFar
  <2>4. ValueRead(p)' /\ HasChars(p)'
    <3>1. began[p].depth = n - 1 /\ TokenOf(text, ValueAt(p)) = Top.opener
      BY <1>2, <1>5, <1>8, Zenon DEF LevelRead
    <3>2. Top.opener \notin {"number", "string"}
      BY <1>5, Zenon DEF Closer
    <3>3. FirstIn(n) = NextToken(text, ValueAt(p) + 1)
      BY <1>2, <1>5, Zenon DEF FirstIn
    <3>4. Top.head # NULL => began'[Top.head] = [at |-> FirstIn(n), depth |-> n]
      <4> SUFFICES ASSUME Top.head # NULL PROVE began'[Top.head] = [at |-> FirstIn(n), depth |-> n]
        OBVIOUS
      <4>1. Top.head \in Live
        BY <1>4, <1>5, Where, Zenon
      <4> QED
        BY <1>5, <1>8, <1>11, <4>1, Zenon DEF ListRead
    <3>5. (n - 1) + 1 = n
      BY <1>5
    <3>6. Top.head = NULL => TokenOf(text, FirstIn(n)) = Closer[Top.opener]
      BY <1>9, Zenon
    <3>7. EndOf(p)' # NULL /\ ValueAt(p)' = ValueAt(p) /\ began'[p].depth = n - 1
      BY <1>5, <1>9, <1>10, <1>11, <3>1, Zenon
    <3>8. Childs(p)' = Top.head
      BY <1>12, Zenon DEF Childs
    <3>9. Childs(p)' # NULL => began'[items'[p].child] = [at |-> FirstIn(n), depth |-> began'[p].depth + 1]
      BY <1>12, <3>4, <3>5, <3>7, <3>8, Zenon
    <3> QED
      BY <1>6, <1>12, <3>1, <3>2, <3>3, <3>6, <3>7, <3>8, <3>9, Zenon DEF ValueRead, HasChars, Childs
  <2>5. c # p => NextRead(c)'
    <3> SUFFICES ASSUME c # p PROVE NextRead(c)'
      OBVIOUS
    <3>1. Top.head # NULL
      BY <1>9
    <3>2. items'[c].next = NULL
      BY <1>2, <1>4, <1>5, <1>11, Zenon DEF Tree, Growing
    <3>3. TokenOf(text, offset) \in {"]", "}"}
      BY <1>5, <1>9, Zenon DEF Closer
    <3> QED
      BY <1>5, <1>6, <1>9, <1>11, <3>1, <3>2, <3>3, Zenon DEF NextRead
  <2>6. ASSUME NEW i \in Live
        PROVE  /\ NameRead(i)' /\ (~Partial(i)' => ValueRead(i)' /\ HasChars(i)')
               /\ items'[i].next # NULL \/ ~LastSoFar(i)' => NextRead(i)'
    <3>1. NameRead(i)'
      BY <1>1, <1>4, ItemRead, Zenon
    <3>2. ~Partial(i)' => ValueRead(i)' /\ HasChars(i)'
      <4>1. CASE i = p
        BY <2>4, <4>1, Zenon
      <4>2. CASE i # p
        BY <1>2, <1>4, <2>2, <2>3, <4>2, ItemRead, Zenon
      <4> QED
        BY <4>1, <4>2
    <3>3. items'[i].next # NULL \/ ~LastSoFar(i)' => NextRead(i)'
      <4>1. CASE i = c /\ c # p
        BY <2>5, <4>1, Zenon
      <4>2. CASE i # c \/ c = p
        BY <1>1, <1>4, <1>11, <2>3, <4>2, ItemRead, Zenon
      <4> QED
        BY <4>1, <4>2
    <3> QED
      BY <3>1, <3>2, <3>3
  <2> QED
    BY <1>6, <2>1, <2>6, Zenon DEF TreeRead
<1> QED
  BY <1>14, <1>15

(* The search and the walk change nothing that was read.                    *)
LEMMA WalkRead ==
    ASSUME Tree, Rooted, Placed, TreeRead, HeapSteps, [Next]_vars, GoesOn,
           SearchOn \/ SearchEnds \/ WalkOn
    PROVE  Lookup' /\ TreeRead'
<1>1. ~Name /\ ~Element /\ ~Close /\ pc \in {"search", "walk"} /\ pc' \in {"search", "walk"}
  BY DEF SearchOn, SearchEnds, WalkOn, Name, Element, Close
<1>2. ~Parsing /\ Going /\ ~Parsing' /\ Going' /\ pc \notin {"value", "name"}
  BY <1>1 DEF Parsing, Going
<1>3. items' = items
  BY Zenon DEF SearchOn, SearchEnds, WalkOn, heapVars
<1>4. Live' = Live
  BY <1>3, Zenon DEF Live
<1>5. /\ began'[root'] = [at |-> TextAt, depth |-> 0]' /\ ~Named(root)'
      /\ root' = root
  BY <1>2, RootRead, Zenon
<1>6. ASSUME NEW i \in Live PROVE ~Partial(i) /\ (LastSoFar(i)' <=> LastSoFar(i))
  BY <1>2, <1>5, Zenon DEF Partial, LastSoFar
<1>7. ASSUME NEW i \in Live
      PROVE  /\ NameRead(i)' /\ (~Partial(i)' => ValueRead(i)' /\ HasChars(i)')
             /\ items'[i].next # NULL \/ ~LastSoFar(i)' => NextRead(i)'
  BY <1>1, <1>2, <1>3, <1>6, ItemRead, Zenon
<1>8. TreeRead'
  BY <1>4, <1>5, <1>7, Zenon DEF TreeRead
<1> QED
  BY <1>2, <1>8, Zenon DEF Lookup

(* Nothing moves when nothing changes.                                      *)
LEMMA NothingRead ==
    ASSUME Lookup, TreeRead, UNCHANGED vars
    PROVE  Lookup' /\ TreeRead'
<1>1. /\ text' = text /\ offset' = offset /\ depth' = depth /\ items' = items /\ strings' = strings
      /\ began' = began /\ pc' = pc /\ frames' = frames /\ current' = current /\ root' = root
  BY Zenon DEF vars, bufferVars, heapVars, useVars
<1>2. Parsing' = Parsing /\ Going' = Going /\ Live' = Live /\ NoJson' = NoJson /\ TextAt' = TextAt
  BY <1>1, Zenon DEF Parsing, Going, Live, NoJson, TextAt
<1>3. \A i : /\ Named(i)' <=> Named(i)
             /\ ValueAt(i)' = ValueAt(i) /\ EndOf(i)' = EndOf(i) /\ Behind(i)' = Behind(i)
             /\ NameRead(i)' <=> NameRead(i)
  BY <1>1, Zenon DEF Named, ValueAt, EndOf, Behind, NameRead
<1>4. \A i : /\ ValueRead(i)' <=> ValueRead(i)
             /\ HasChars(i)' <=> HasChars(i)
             /\ NextRead(i)' <=> NextRead(i)
  BY <1>1, ZenonT(60) DEF ValueRead, HasChars, NextRead, Childs, Named, ValueAt, EndOf, Behind
<1>5. \A i : (Partial(i)' <=> Partial(i)) /\ (LastSoFar(i)' <=> LastSoFar(i))
  BY <1>1, <1>2, Zenon DEF Partial, LastSoFar, OfLevel
<1>6. TreeRead'
  BY <1>1, <1>2, <1>3, <1>4, <1>5, Zenon DEF TreeRead, Named
<1>7. AtToken <=> AtToken'
  <2>1. AtReturn <=> AtReturn'
    BY <1>1, Zenon DEF AtReturn, NumberCut, EndOf, ValueAt, Named
  <2>2. (AtValue <=> AtValue') /\ (AtElement <=> AtElement') /\ (AtClose <=> AtClose')
    BY <1>1, <1>2, Zenon DEF AtValue, AtElement, AtClose, Top, FirstIn, EndOf, ValueAt, Behind, Named
  <2> QED
    BY <1>1, <2>1, <2>2, Zenon DEF AtToken
<1>8. \A k : (LevelRead(k) <=> LevelRead(k)') /\ (ListRead(k) <=> ListRead(k)')
  BY <1>1, <1>2, ZenonT(60) DEF LevelRead, ListRead, FirstIn, ListAt, ElementOf, EndOf, ValueAt, Named
<1>9. Lookup'
  BY <1>1, <1>2, <1>7, <1>8, Zenon DEF Lookup
<1> QED
  BY <1>6, <1>9

(* What is read stays read.                                                  *)
LEMMA ReadStep ==
    Tree /\ Rooted /\ Placed /\ Lookup /\ TreeRead /\ [Next]_vars => Lookup' /\ TreeRead'
<1> SUFFICES ASSUME Tree, Rooted, Placed, Lookup, TreeRead, [Next]_vars PROVE Lookup' /\ TreeRead'
  OBVIOUS
<1>1. HeapSteps
  BY HeapStep
<1>2. CASE ~GoesOn
  <2>1. ~Parsing' /\ ~Going'
    BY <1>2 DEF GoesOn, Parsing, Going
  <2> QED
    BY <2>1, Zenon DEF Lookup, TreeRead
<1>3. CASE GoesOn
  <2>1. ~NoMemory /\ ~Fail
    BY <1>3, WentOn
  <2>2. ~NoValue /\ ~Unwind /\ ~WalkEnds /\ ~DeleteChildren /\ ~DeleteItem /\ ~Deleted
    BY <1>3, <2>1, Zenon DEF GoesOn, NoValue, Unwind, WalkEnds, DeleteChildren, DeleteItem, Deleted
  <2> QED
    BY <1>1, <1>3, <2>1, <2>2, StartRead, ScalarRead, OpenRead, ElementRead, NameReadStep, ReturnRead,
       CloseRead, WalkRead, NothingRead, Zenon DEF Next
<1> QED
  BY <1>2, <1>3

(* Where no value begins, or no name is, the text is no JSON.               *)
LEMMA NoValueHere ==
    ASSUME Tree, Lookup, pc = "value", Here \in Others \ Literals,
           Here \in DOMAIN Closer => depth = NESTING_LIMIT
    PROVE  NoJson
<1>1. Parsing
  BY DEF Parsing
<1>2. text \in Texts /\ offset \in Offsets /\ Here = TokenOf(text, offset) /\ depth \in Depths
  BY <1>1, Where
<1>3. offset = ValueAt(current) /\ began[current].depth = depth /\ (EndOf(current) = NULL => NoJson)
  BY <1>1, Zenon DEF Lookup, AtToken, AtValue
<1>4. Grammar[text].value[offset, depth] = NULL
  BY <1>2, NoValueThere, Zenon
<1> QED
  BY <1>3, <1>4, Zenon DEF EndOf

(* ... or no name where an object needs one: the list has no end; ...        *)
LEMMA NoNameHere ==
    ASSUME Tree, Rooted, Placed, Lookup, TreeRead, pc = "name", ~HasName(text, offset)
    PROVE  NoJson
<1>1. Parsing /\ Going
  BY DEF Parsing, Going
<1>2. /\ frames # <<>> /\ Top.opener = "{" /\ Top = frames[depth]
      /\ ListAt(offset, depth) = ListAt(FirstIn(depth), depth)
      /\ TokenOf(text, FirstIn(depth)) # Closer[Top.opener]
  BY NamedItem, Zenon
<1>3. /\ text \in Texts /\ offset \in Offsets /\ depth \in Depths /\ depth \in DOMAIN frames
      /\ Top.item \in Live /\ "{" \in DOMAIN Closer
  BY <1>1, <1>2, Where, Zenon DEF Closer
<1>4. Grammar[text].list[offset, depth, "{"] = NULL
  BY <1>3, NoListThere, Zenon
<1>5. ListAt(FirstIn(depth), depth) = NULL
  BY <1>2, <1>4, Zenon DEF ListAt
<1>6. LevelRead(depth) /\ NameRead(frames[depth].item)
  BY <1>1, <1>2, <1>3, Zenon DEF Lookup, TreeRead
<1> QED
  BY <1>1, <1>2, <1>3, <1>5, <1>6, NoList, Zenon

(* ... nor if neither a comma nor its bracket is behind an element that was  *)
(* read to its end.                                                         *)
LEMMA NothingBehind ==
    ASSUME Tree, Placed, Lookup, TreeRead, Return, pc' = "fail"
    PROVE  NoJson \/ NumberCut'
<1>1. Parsing /\ Going /\ pc = "return" /\ frames # <<>>
  BY Zenon DEF Return, Parsing, Going
<1> SUFFICES ASSUME ~NumberCut PROVE NoJson
  BY <1>1, CutFails
<1>2. EndOf(current) = offset
  BY <1>1, Zenon DEF Lookup, AtToken, AtReturn
<1>3. PICK b : b = Behind(current)
  OBVIOUS
<1>4. /\ Tok(Skip(offset)) = TokenOf(text, b)
      /\ TokenOf(text, FirstIn(depth)) # Closer[Top.opener]
      /\ TokenOf(text, b) # "," =>
           ListAt(FirstIn(depth), depth) = IF TokenOf(text, b) = Closer[Top.opener] THEN b ELSE NULL
  BY <1>1, <1>3, <1>2, ReturnPlace, Zenon
<1>5. TokenOf(text, b) # "," /\ TokenOf(text, b) # Closer[Top.opener]
  <2>1. pc' = CASE Tok(Skip(offset)) = "," -> "element"
                [] Tok(Skip(offset)) = Closer[Top.opener] -> "close"
                [] OTHER -> "fail"
    BY <1>1, Zenon DEF Return
  <2>2. CASE TokenOf(text, b) = ","
    <3>1. Closer[Top.opener] # ","
      BY <1>1, Where, Zenon DEF Closer
    <3>2. pc' = "element"
      BY <1>4, <2>1, <2>2, <3>1, Zenon
    <3> QED
      BY <3>2, Zenon
  <2>3. CASE TokenOf(text, b) # "," /\ TokenOf(text, b) = Closer[Top.opener]
    <3>1. pc' = "close"
      BY <1>4, <2>1, <2>3, Zenon
    <3> QED
      BY <3>1, Zenon
  <2> QED
    BY <2>2, <2>3, Zenon
<1>6. ListAt(FirstIn(depth), depth) = NULL
  BY <1>4, <1>5, Zenon
<1>7. /\ Top = frames[depth] /\ depth \in DOMAIN frames /\ Top.item \in Live
      /\ LevelRead(depth) /\ NameRead(Top.item)
  BY <1>1, Where, Zenon DEF Lookup, TreeRead
<1> QED
  BY <1>1, <1>4, <1>6, <1>7, NoList, Zenon

(* The parser fails on what is no JSON, and what follows a failure follows   *)
(* from it.                                                                 *)
LEMMA GaveUpStep ==
    Tree /\ Rooted /\ Placed /\ Lookup /\ TreeRead /\ GaveUp /\ [Next]_vars => GaveUp'
<1> SUFFICES ASSUME Tree, Rooted, Placed, Lookup, TreeRead, GaveUp, [Next]_vars, Failed'
             PROVE  NoJson \/ NumberCut'
  BY TextKept, NoJsonKept, Zenon DEF GaveUp
<1>1. ~NoMemory
  BY DEF NoMemory, Failed
<1>2. pc' \in {"fail", "delete"}
  BY DEF Failed
<1>3. ASSUME Failed, text' = text, offset' = offset PROVE NoJson \/ NumberCut'
  BY <1>3, Zenon DEF GaveUp, NumberCut
<1>4. CASE parse_number \/ StringValue \/ NoValue
  <2>1. pc = "value"
    BY <1>4, Zenon DEF parse_number, StringValue, NoValue
  <2>2. Here \in {"-", BadString, "open quote", "]", "}", ",", ":", "NUL", "BOM", "other"}
    <3>1. CASE parse_number
      BY <1>2, <3>1, Zenon DEF parse_number, Parsed
    <3>2. CASE StringValue
      BY <1>1, <1>2, <3>2, Zenon DEF StringValue
    <3>3. CASE NoValue
      BY <3>3, Zenon DEF NoValue
    <3> QED
      BY <1>4, <3>1, <3>2, <3>3, Zenon
  <2>3. Here \in Others \ Literals /\ Here \notin DOMAIN Closer
    BY <2>2, Zenon DEF Others, Space, Literals, Closer, BadString
  <2> QED
    BY <2>1, <2>3, NoValueHere, Zenon
<1>5. CASE Open
  <2>1. pc = "value" /\ Here \in DOMAIN Closer /\ TooDeep
    BY <1>2, <1>5 DEF Open
  <2>2. depth = NESTING_LIMIT
    <3>1. depth \in Depths
      BY <2>1, Where DEF Parsing
    <3> QED
      BY <2>1, <3>1, JsonAssumption DEF TooDeep, Depths
  <2>3. Here \in Others \ Literals
    BY <2>1, Zenon DEF Others, Space, Literals, Closer, BadString
  <2> QED
    BY <2>1, <2>2, <2>3, NoValueHere, Zenon
<1>6. CASE Name
  <2>1. pc = "name" /\ (Here \notin Strings \/ Tok(Skip(offset + 1)) # ":")
    BY <1>1, <1>2, <1>6 DEF Name
  <2>2. text \in Texts /\ offset \in Offsets /\ Here = TokenOf(text, offset)
    BY <2>1, Where DEF Parsing
  <2>3. ~HasName(text, offset)
    <3> SUFFICES ASSUME HasName(text, offset) PROVE FALSE
      OBVIOUS
    <3>1. offset + 1 \in Offsets /\ NextToken(text, offset + 1) \in Offsets
      BY <2>2, BehindNameIn
    <3>2. PICK s \in Offsets : s = NextToken(text, offset + 1) /\ s = Skip(offset + 1)
      BY <2>2, <3>1, SkipIsNext
    <3>3. Tok(s) = TokenOf(text, s)
      BY <2>2, TextsAssumption DEF Tok, CanAccess, TokenOf, Offsets
    <3> QED
      BY <2>1, <2>2, <3>2, <3>3, Zenon DEF HasName
  <2> QED
    BY <2>1, <2>3, NoNameHere, Zenon
<1>7. CASE Return
  <2>1. pc' = "fail"
    BY <1>2, <1>7, Zenon DEF Return
  <2> QED
    BY <1>7, <2>1, NothingBehind, Zenon
<1>8. CASE WalkEnds
  <2>1. frames' = <<>> /\ root' = NULL /\ pc' = "delete"
    BY <1>8 DEF WalkEnds, Tree, Typed, Levels
  <2> QED
    BY <2>1 DEF Failed
<1>9. CASE Unwind \/ DeleteChildren \/ DeleteItem \/ Deleted \/ UNCHANGED vars
  <2>1. short' = short /\ text' = text /\ offset' = offset
    BY <1>9, Zenon DEF Unwind, DeleteChildren, DeleteItem, Deleted, bufferVars, heapVars, vars
  <2>2. CASE Unwind
    <3>1. pc = "fail"
      BY <2>2, Zenon DEF Unwind
    <3> QED
      BY <1>3, <2>1, <3>1, Zenon DEF Failed
  <2>3. CASE DeleteChildren \/ DeleteItem \/ UNCHANGED vars
    <3>1. pc' = pc /\ frames' = frames /\ root' = root
      BY <2>3, Zenon DEF DeleteChildren, DeleteItem, vars, useVars
    <3> QED
      BY <1>3, <2>1, <3>1, Zenon DEF Failed
  <2>4. CASE Deleted
    <3>1. pc = "delete" /\ ~(frames = <<>> /\ root = NULL)
      BY <1>2, <2>4 DEF Deleted
    <3> QED
      BY <1>3, <2>1, <3>1, Zenon DEF Failed
  <2> QED
    BY <1>9, <2>2, <2>3, <2>4
<1>10. ~Start /\ ~Literal /\ ~Element /\ ~Close /\ ~SearchOn /\ ~SearchEnds /\ ~WalkOn
  <2>1. ~Start /\ ~Literal
    BY <1>1, <1>2 DEF Start, Literal, Parsed
  <2>2. ~Element /\ ~Close
    BY <1>1, <1>2 DEF Element, Close
  <2>3. ~SearchOn /\ ~SearchEnds /\ ~WalkOn
    BY <1>2 DEF SearchOn, SearchEnds, WalkOn
  <2> QED
    BY <2>1, <2>2, <2>3
<1> QED
  BY <1>4, <1>5, <1>6, <1>7, <1>8, <1>9, <1>10, Zenon DEF Next

(* The tree is the value with which the text begins, and the parser gives up *)
(* only on a text that begins with none, in the middle of a number of more  *)
(* than 63 characters, or when memory runs out.                             *)
THEOREM ReadAsJson == Spec => []ParsesJson
<1>1. Init => Rooted /\ Placed /\ Lookup /\ TreeRead /\ GaveUp
  <2> SUFFICES ASSUME Init PROVE Rooted /\ Placed /\ Lookup /\ TreeRead /\ GaveUp
    OBVIOUS
  <2>1. pc = "start" /\ Live = {} /\ members = <<>>
    BY DEF Init, Live
  <2>2. ~Parsing /\ ~Going /\ ~Failed /\ pc \notin {"value", "name"}
    BY <2>1 DEF Parsing, Going, Failed
  <2> QED
    BY <2>1, <2>2, Zenon DEF Rooted, Placed, Lookup, TreeRead, GaveUp
<1>2. Tree /\ Rooted /\ Placed /\ Lookup /\ TreeRead /\ GaveUp /\ [Next]_vars
        => Rooted' /\ Placed' /\ Lookup' /\ TreeRead' /\ GaveUp'
  BY RootedStep, HeapStep, PlacedStep, ReadStep, GaveUpStep, Zenon
<1>3. TreeRead /\ GaveUp => ParsesJson
  <2> SUFFICES ASSUME TreeRead, GaveUp PROVE ParsesJson
    OBVIOUS
  <2>1. ASSUME pc \in {"search", "walk"}
        PROVE  /\ began[root] = [at |-> TextAt, depth |-> 0] /\ ~Named(root)
               /\ \A i \in Live : NameRead(i) /\ ValueRead(i) /\ (i # root => NextRead(i))
    <3>1. Going /\ ~Parsing
      BY <2>1 DEF Going, Parsing
    <3> QED
      BY <3>1, Zenon DEF TreeRead, Partial, LastSoFar
  <2>2. pc = "fail" /\ ~short => NoJson \/ NumberCut
    BY Zenon DEF GaveUp, Failed
  <2> QED
    BY <2>1, <2>2, Zenon DEF ParsesJson
<1> QED
  BY <1>1, <1>2, <1>3, TreeInvariant, PTL DEF Spec
=============================================================================

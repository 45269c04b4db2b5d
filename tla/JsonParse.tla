----------------------------- MODULE JsonParse ------------------------------
(***************************************************************************)
(* What on_message does with a payload (cJSON.c): cJSON_Parse, the search    *)
(* for "data", the walk over its members, and cJSON_Delete, on a heap whose  *)
(* allocations may fail.                                                    *)
(*                                                                         *)
(* A text is a sequence of tokens, the last one the terminating NUL; white  *)
(* space is one token.  A string token is decoded by module JsonText.  The  *)
(* recursion of the parser and of cJSON_Delete is an explicit stack.  What  *)
(* is kept for cJSON_GetErrorPtr is left out: nobody asks.                  *)
(***************************************************************************)
EXTENDS Integers, Sequences

CONSTANTS Texts,            \* the payloads
          Strings, Numbers, \* tokens that are whole strings, and what strtod reads at once
          Rest,             \* numbers too, but behind another what 63 characters left of it
          NESTING_LIMIT,    \* CJSON_NESTING_LIMIT
          Grammar           \* what of each payload is JSON (see IsGrammar)

ASSUME JsonAssumption == NESTING_LIMIT \in Nat

NULL == 0
Space == {"ws", "NUL"}
Literals == {"null", "false", "true"}
BadString == "bad escape"    \* closed, but no escape sequence of JSON's
Closer == [opener \in {"[", "{"} |-> IF opener = "[" THEN "]" ELSE "}"]
Others == Space \cup Literals \cup
          {"[", "]", "{", "}", ",", ":", "BOM", "-", "other", "open quote", BadString}

(* cJSON_ParseWithOpts measures the payload up to its terminating NUL, and   *)
(* the buffer ends with it; no token is two things.                         *)
ASSUME TextsAssumption ==
    /\ \A t \in Texts : Len(t) \in Nat \ {0} /\ t[Len(t)] = "NUL"
    /\ (Strings \cup Numbers) \cap Others = {} /\ Rest \subseteq Numbers

(* The grammar of JSON by where things end.  NextToken: the next token that  *)
(* is no white space, the NUL at the end if there is none.  A value that     *)
(* begins at o, d levels deep, ends before value[o, d], and what remains of a *)
(* list at its next element, or member, at o has its bracket at             *)
(* list[o, d, opener]; NULL when it is no JSON.  A number may be longer than *)
(* the 63 characters that parse_number copies: two tokens, and one value.   *)
TokenOf(t, o) == t[o + 1]
NextToken(t, o) ==
    CHOOSE j \in o..(Len(t) - 1) : /\ \A k \in o..(j - 1) : TokenOf(t, k) \in Space
                                   /\ TokenOf(t, j) \notin Space \/ j = Len(t) - 1
HasName(t, o) == TokenOf(t, o) \in Strings /\ TokenOf(t, NextToken(t, o + 1)) = ":"
BehindName(t, o) == NextToken(t, NextToken(t, o + 1) + 1)
ElementAt(t, o, opener) == IF opener = "[" THEN o ELSE BehindName(t, o)

IsCut(t, o) == TokenOf(t, o) \in Numbers /\ TokenOf(t, o + 1) \in Rest
ScalarEnd(t, o) == IF IsCut(t, o) THEN o + 2 ELSE o + 1

ValueEnds(t, list, o, d) ==
    IF TokenOf(t, o) \in Strings \cup Numbers \cup Literals THEN ScalarEnd(t, o)
    ELSE IF TokenOf(t, o) \in DOMAIN Closer /\ d < NESTING_LIMIT
    THEN LET opener == TokenOf(t, o)
             first == NextToken(t, o + 1)
         IN  IF TokenOf(t, first) = Closer[opener] THEN first + 1
             ELSE IF list[first, d + 1, opener] # NULL THEN list[first, d + 1, opener] + 1 ELSE NULL
    ELSE NULL
ListEnds(t, value, list, o, d, opener) ==
    IF (opener = "{" => HasName(t, o)) /\ value[ElementAt(t, o, opener), d] # NULL
    THEN LET e == NextToken(t, value[ElementAt(t, o, opener), d])
         IN  IF TokenOf(t, e) = "," THEN list[NextToken(t, e + 1), d, opener]
             ELSE IF TokenOf(t, e) = Closer[opener] THEN e ELSE NULL
    ELSE NULL

IsGrammar(t, value, list) ==
    LET offsets == 0..(Len(t) - 1)
        depths == 0..NESTING_LIMIT
    IN  /\ value \in [offsets \X depths -> offsets]
        /\ list \in [offsets \X depths \X DOMAIN Closer -> offsets]
        /\ \A o \in offsets, d \in depths :
              /\ value[o, d] = ValueEnds(t, list, o, d)
              /\ \A opener \in DOMAIN Closer :
                    list[o, d, opener] = ListEnds(t, value, list, o, d, opener)

ASSUME GrammarAssumption ==
    \A t \in Texts : IsGrammar(t, Grammar[t].value, Grammar[t].list)

VARIABLES text, offset, depth,  \* parse_buffer
          items, strings,       \* the heap: cJSON structures and character arrays
          allocated,            \* how many there have been; the next address
          began,                \* where the parsing of an item began: [at, depth] (observed)
          pc,                   \* where on_message, or the parser, is
          frames,               \* parse_array and parse_object under way
          current,              \* the item being parsed
          root, data,           \* payload_json, data_json
          cursor, members,      \* the search and the walk; what the walk has met (observed)
          deleting,             \* cJSON_Delete under way: [item, entered]
          short                 \* an allocation failed (observed)

bufferVars == <<text, offset, depth>>
heapVars == <<items, strings, allocated, began, short>>
useVars == <<root, data, cursor, members>>
vars == <<bufferVars, heapVars, pc, frames, current, useVars, deleting>>

Init == /\ text \in Texts /\ offset = 0 /\ depth = 0
        /\ items = <<>> /\ strings = <<>> /\ allocated = 0 /\ began = <<>> /\ short = FALSE
        /\ pc = "start" /\ frames = <<>> /\ current = NULL
        /\ root = NULL /\ data = NULL /\ cursor = NULL /\ members = <<>>
        /\ deleting = <<>>

CanAccess(o) == o < Len(text)
Tok(o) == IF CanAccess(o) THEN text[o + 1] ELSE "outside"
Here == Tok(offset)

(* Mutant: without the step back to the NUL. *)
StayInsideNot(o) == o

(* A step back from the end of the buffer. *)
StayInside(o) == IF o = Len(text) THEN o - 1 ELSE o

(* buffer_skip_whitespace, to which the NUL is white space too. *)
Skip(o) ==
    StayInside(CHOOSE j \in o..Len(text) : (\A k \in o..(j - 1) : Tok(k) \in Space)
                                              /\ Tok(j) \notin Space)

(* skip_utf8_bom wants a character behind the mark. *)
SkipBom == IF Tok(0) = "BOM" /\ CanAccess(2) THEN 1 ELSE 0

-----------------------------------------------------------------------------
(* The heap. *)

Fresh == allocated + 1
EmptyItem == [type |-> "none", next |-> NULL, prev |-> NULL, child |-> NULL,
              value |-> NULL, valuestring |-> NULL, string |-> NULL]
Extend(f, x, v) == [y \in DOMAIN f \cup {x} |-> IF y = x THEN v ELSE f[y]]
Without(f, S) == [y \in DOMAIN f \ S |-> f[y]]

NoMemory == /\ short' = TRUE
            /\ pc' = "fail"
            /\ UNCHANGED <<bufferVars, items, strings, allocated, began, frames, current, useVars, deleting>>

Fail == /\ pc' = "fail"
        /\ UNCHANGED <<bufferVars, heapVars, frames, current, useVars, deleting>>

-----------------------------------------------------------------------------
(* cJSON_ParseWithLengthOpts, with the buffer that cJSON_ParseWithOpts      *)
(* measured.                                                                *)
Start == /\ pc = "start"
         /\ \/ NoMemory
            \/ /\ items' = Extend(items, Fresh, EmptyItem) /\ allocated' = Fresh
               /\ root' = Fresh /\ current' = Fresh
               /\ offset' = Skip(SkipBom)
               /\ began' = Extend(began, Fresh, [at |-> offset', depth |-> depth])
               /\ pc' = "value"
               /\ UNCHANGED <<text, depth, strings, short, frames, data, cursor, members, deleting>>

(* parse_value *)
Parsed(type, value) ==
    /\ items' = [items EXCEPT ![current].type = type, ![current].value = value]
    /\ offset' = offset + 1
    /\ pc' = "return"
    /\ UNCHANGED <<text, depth, strings, allocated, began, short, frames, current, useVars, deleting>>

Literal == /\ pc = "value" /\ Here \in Literals
           /\ Parsed(Here, NULL)

(* At most 63 characters are copied and read.  A "-" is looked at, and       *)
(* strtod reads nothing.                                                    *)
parse_number == /\ pc = "value"
                /\ \/ Here \in Numbers /\ Parsed("number", Here)
                   \/ Here = "-" /\ Fail

(* parse_string: when it returns, either the output hangs on the item or it *)
(* has been freed.                                                          *)
StringMemory(o) == Tok(o) \in Strings \cup {BadString}

StringValue ==
    /\ pc = "value"
    /\ \/ /\ Here \in Strings
          /\ strings' = Extend(strings, Fresh, Here) /\ allocated' = Fresh
          /\ items' = [items EXCEPT ![current].type = "string", ![current].valuestring = Fresh]
          /\ offset' = offset + 1 /\ pc' = "return"
          /\ UNCHANGED <<text, depth, began, short, frames, current, useVars, deleting>>
       \/ StringMemory(offset) /\ NoMemory
       \/ Here \in {BadString, "open quote"} /\ Fail

NoValue == /\ pc = "value"
           /\ Here \in {"]", "}", ",", ":", "NUL", "BOM", "other"}
           /\ Fail

(* parse_array and parse_object; item->child is set at the end. *)
Top == frames[Len(frames)]
Pop == SubSeq(frames, 1, Len(frames) - 1)

(* Mutant: the limit off by one. *)
TooDeepLater == depth > NESTING_LIMIT

TooDeep == depth >= NESTING_LIMIT

Open == /\ pc = "value" /\ Here \in DOMAIN Closer
        /\ IF TooDeep
           THEN Fail
           ELSE /\ depth' = depth + 1
                /\ frames' = Append(frames, [opener |-> Here, item |-> current, head |-> NULL])
                /\ IF Tok(Skip(offset + 1)) = Closer[Here]
                   THEN offset' = Skip(offset + 1) /\ pc' = "close"
                   ELSE offset' = Skip(offset + 1) - 1 /\ pc' = "element"
                /\ UNCHANGED <<text, heapVars, current, useVars, deleting>>

(* Mutant: without the link back. *)
AttachedOneWay ==
    IF Top.head = NULL
    THEN Extend(items, Fresh, EmptyItem)
    ELSE Extend([items EXCEPT ![current].next = Fresh], Fresh, EmptyItem)

Attached ==
    IF Top.head = NULL
    THEN Extend(items, Fresh, EmptyItem)
    ELSE Extend([items EXCEPT ![current].next = Fresh], Fresh, [EmptyItem EXCEPT !.prev = current])

Element == /\ pc = "element"
           /\ \/ NoMemory
              \/ /\ items' = Attached /\ allocated' = Fresh /\ current' = Fresh
                 /\ frames' = [frames EXCEPT ![Len(frames)].head = IF @ = NULL THEN Fresh ELSE @]
                 /\ offset' = Skip(offset + 1)
                 /\ began' = Extend(began, Fresh, [at |-> offset', depth |-> depth])
                 /\ pc' = IF Top.opener = "[" THEN "value" ELSE "name"
                 /\ UNCHANGED <<text, depth, strings, short, useVars, deleting>>

(* The name is parsed as a value, and moved. *)
Name == /\ pc = "name"
        /\ \/ /\ Here \in Strings
              /\ strings' = Extend(strings, Fresh, Here) /\ allocated' = Fresh
              /\ items' = [items EXCEPT ![current].type = "string", ![current].string = Fresh]
              /\ IF Tok(Skip(offset + 1)) = ":"
                 THEN offset' = Skip(Skip(offset + 1) + 1) /\ pc' = "value"
                 ELSE offset' = Skip(offset + 1) /\ pc' = "fail"
              /\ UNCHANGED <<text, depth, began, short, frames, current, useVars, deleting>>
           \/ StringMemory(offset) /\ NoMemory
           \/ Here \notin Strings /\ Fail

Return == /\ pc = "return"
          /\ IF frames = <<>>
             THEN pc' = "search" /\ cursor' = items[root].child /\ UNCHANGED offset
             ELSE /\ offset' = Skip(offset)
                  /\ pc' = CASE Tok(Skip(offset)) = "," -> "element"
                             [] Tok(Skip(offset)) = Closer[Top.opener] -> "close"
                             [] OTHER -> "fail"
                  /\ UNCHANGED cursor
          /\ UNCHANGED <<text, depth, heapVars, frames, current, root, data, members, deleting>>

(* Mutants: the depth is not given back, or twice; the head is not linked to *)
(* the last.                                                                *)
ShallowerNot == depth
ShallowerTwice == depth - 2
ClosedOpenEnded(i) ==
    IF i = Top.item THEN [items[i] EXCEPT !.type = Top.opener, !.child = Top.head] ELSE items[i]

Shallower == depth - 1

Closed(i) == IF i = Top.item THEN [items[i] EXCEPT !.type = Top.opener, !.child = Top.head]
             ELSE IF i = Top.head THEN [items[i] EXCEPT !.prev = current] ELSE items[i]

Close == /\ pc = "close"
         /\ items' = [i \in DOMAIN items |-> Closed(i)]
         /\ frames' = Pop /\ current' = Top.item
         /\ depth' = Shallower
         /\ offset' = offset + 1 /\ pc' = "return"
         /\ UNCHANGED <<text, strings, allocated, began, short, useVars, deleting>>

(* Mutant: the list of the level is forgotten. *)
ListToDeleteNone == NULL

ListToDelete == IF frames = <<>> THEN root ELSE Top.head

(* The labels fail: each level deletes its list, and the outermost the root. *)
Unwind == /\ pc = "fail"
          /\ IF ListToDelete # NULL
             THEN pc' = "delete" /\ deleting' = <<[item |-> ListToDelete, entered |-> FALSE]>>
             ELSE pc' = (IF frames = <<>> THEN "done" ELSE "fail") /\ UNCHANGED deleting
          /\ IF frames = <<>> THEN root' = NULL /\ UNCHANGED frames
                              ELSE frames' = Pop /\ UNCHANGED root
          /\ UNCHANGED <<bufferVars, heapVars, current, data, cursor, members>>

-----------------------------------------------------------------------------
(* cJSON_GetObjectItemCaseSensitive(payload_json, "data"): the search ends  *)
(* at a member without a name as well.  Mutant: any name will do.            *)
Named(i) == items[i].string # NULL
IsDataNamed(i) == Named(i)

IsData(i) == Named(i) /\ strings[items[i].string] = "data"

(* Mutant: the search stays where it is. *)
FollowingNot(i) == i

Following(i) == items[i].next

SearchOn == /\ pc = "search" /\ cursor # NULL /\ Named(cursor) /\ ~IsData(cursor)
            /\ cursor' = Following(cursor)
            /\ UNCHANGED <<bufferVars, heapVars, pc, frames, current, root, data, members, deleting>>

SearchEnds == /\ pc = "search"
              /\ IF cursor = NULL \/ ~Named(cursor)
                 THEN data' = NULL /\ cursor' = NULL
                 ELSE IsData(cursor) /\ data' = cursor /\ cursor' = items[cursor].child
              /\ pc' = "walk"
              /\ UNCHANGED <<bufferVars, heapVars, frames, current, root, members, deleting>>

(* cJSON_ArrayForEach *)
WalkOn == /\ pc = "walk" /\ cursor # NULL
          /\ members' = Append(members, cursor)
          /\ cursor' = items[cursor].next
          /\ UNCHANGED <<bufferVars, heapVars, pc, frames, current, root, data, deleting>>

WalkEnds == /\ pc = "walk" /\ cursor = NULL
            /\ pc' = "delete" /\ deleting' = <<[item |-> root, entered |-> FALSE]>>
            /\ root' = NULL /\ data' = NULL
            /\ UNCHANGED <<bufferVars, heapVars, frames, current, cursor, members>>

-----------------------------------------------------------------------------
(* cJSON_Delete; the parser makes no references and no constant names. *)
Item == deleting[Len(deleting)].item
Level == [deleting EXCEPT ![Len(deleting)].entered = TRUE]

DeleteChildren == /\ pc = "delete" /\ deleting # <<>>
                  /\ ~deleting[Len(deleting)].entered /\ items[Item].child # NULL
                  /\ deleting' = Append(Level, [item |-> items[Item].child, entered |-> FALSE])
                  /\ UNCHANGED <<bufferVars, heapVars, pc, frames, current, useVars>>

(* Mutant: the value, but not the name. *)
CharsButName == {items[Item].valuestring}

Chars == {items[Item].valuestring, items[Item].string}

DeleteItem == /\ pc = "delete" /\ deleting # <<>>
              /\ deleting[Len(deleting)].entered \/ items[Item].child = NULL
              /\ items' = Without(items, {Item})
              /\ strings' = Without(strings, Chars)
              /\ deleting' = SubSeq(deleting, 1, Len(deleting) - 1)
                               \o (IF items[Item].next = NULL THEN <<>>
                                   ELSE <<[item |-> items[Item].next, entered |-> FALSE]>>)
              /\ UNCHANGED <<bufferVars, allocated, began, short, pc, frames, current, useVars>>

Deleted == /\ pc = "delete" /\ deleting = <<>>
           /\ pc' = IF frames = <<>> /\ root = NULL THEN "done" ELSE "fail"
           /\ UNCHANGED <<bufferVars, heapVars, frames, current, useVars, deleting>>

Next == \/ Start \/ Literal \/ parse_number \/ StringValue \/ NoValue \/ Open \/ Element \/ Name
        \/ Return \/ Close \/ Unwind
        \/ SearchOn \/ SearchEnds \/ WalkOn \/ WalkEnds
        \/ DeleteChildren \/ DeleteItem \/ Deleted

Spec == Init /\ [][Next]_vars

FairSpec == Spec /\ WF_vars(Next)

-----------------------------------------------------------------------------
(* Properties *)

Live == DOMAIN items
Addresses == 1..allocated

TypeOK == /\ text[Len(text)] = "NUL" /\ offset \in Nat /\ depth \in Nat
          /\ Live \subseteq Addresses /\ DOMAIN strings \subseteq Addresses \ Live
          /\ \A i \in Live : /\ items[i].type \in {"none", "string", "number", "[", "{"} \cup Literals
                            /\ {items[i].next, items[i].prev, items[i].child, items[i].valuestring,
                                 items[i].string} \subseteq {NULL} \cup Addresses
          /\ \A a \in DOMAIN strings : strings[a] \in Strings
          /\ pc \in {"start", "value", "element", "name", "return", "close", "fail", "search", "walk",
                    "delete", "done"}
          /\ \A k \in DOMAIN frames : frames[k].opener \in DOMAIN Closer /\ frames[k].item \in Live
          /\ {current, root, data, cursor} \subseteq {NULL} \cup Addresses
          /\ short \in BOOLEAN

(* The parser reads the text inside its buffer: buffer_skip_whitespace,      *)
(* which runs over the NUL, and the steps to and fro around an element keep *)
(* to it.                                                                   *)
Inside == pc # "start" => CanAccess(offset) /\ offset >= 0

(* What refers to an item: a sibling, the parent once its list is complete  *)
(* (and until its children are deleted), the root, the list of a level being *)
(* parsed, or cJSON_Delete.                                                 *)
Entered == {deleting[k].item : k \in {k \in DOMAIN deleting : deleting[k].entered}}
OwnersOf(i) ==
    {<<"next", j>> : j \in {j \in Live : items[j].next = i}}
      \cup {<<"child", j>> : j \in {j \in Live \ Entered : items[j].child = i}}
      \cup {<<"level", k>> : k \in {k \in DOMAIN frames : frames[k].head = i}}
      \cup {<<"delete", k>> : k \in {k \in DOMAIN deleting : deleting[k].item = i}}
      \cup {<<"root", 0>> : x \in {x \in {root} : x = i}}
HoldersOf(a) == {i \in Live : a \in {items[i].valuestring, items[i].string}}

(* At every moment, an allocation that fails included, each live item and   *)
(* each live array of characters is referred to exactly once, and nothing   *)
(* refers to one that was freed: nothing leaks, nothing is freed twice; and *)
(* when on_message is done with a payload, everything is given back.        *)
OneOwner ==
    /\ pc = "done" => items = <<>> /\ strings = <<>>
    /\ \A i \in Addresses : /\ i \in Live => \E o \in OwnersOf(i) : OwnersOf(i) = {o}
                          /\ i \notin Live => OwnersOf(i) = {}
    /\ \A a \in Addresses : IF a \in DOMAIN strings THEN \E i \in Live : HoldersOf(a) = {i}
                                                    ELSE HoldersOf(a) = {}

(* The lists of a parsed text can be walked both ways, and from the first   *)
(* to the last.                                                             *)
Childs(i) == items[i].child
WellLinked ==
    pc \in {"search", "walk"} =>
        \A i \in Live :
            /\ items[i].next # NULL => items[items[i].next].prev = i
            /\ Childs(i) # NULL =>
                  LET last == items[Childs(i)].prev IN last \in Live /\ items[last].next = NULL

(* s is the list that begins with i; and d is the first item named "data"   *)
(* of the list that begins with i, or NULL when there is none: the items    *)
(* before d are not named so.                                               *)
IsList(s, i) ==
    IF i = NULL THEN s = <<>>
    ELSE /\ Len(s) > 0 /\ s[1] = i /\ items[s[Len(s)]].next = NULL
         /\ \A k \in 1..(Len(s) - 1) : items[s[k]].next = s[k + 1]
NamedData(i) == items[i].string # NULL /\ strings[items[i].string] = "data"
FirstData(d, i) ==
    /\ d # NULL => NamedData(d)
    /\ \E before \in SUBSET Live :
          /\ i \in before \cup {d}
          /\ \A j \in before : ~NamedData(j) /\ items[j].next \in before \cup {d}

(* send_event is called for the members of the first "data" of an object,   *)
(* each once and in order, and for nothing else.                            *)
MembersAsSent ==
    pc = "walk" /\ cursor = NULL =>
        IF items[root].type = "{"
        THEN \E d \in Live \cup {NULL} :
                /\ FirstData(d, Childs(root))
                /\ IsList(members, IF d = NULL THEN NULL ELSE Childs(d))
        ELSE members = <<>>

(* Where an item's value begins, and ends; and its place in the text: a name *)
(* is followed by a colon and the value, a list by its first element, an     *)
(* item by a comma and its sibling, and the last of a list by a bracket.     *)
ValueAt(i) == IF Named(i) THEN BehindName(text, began[i].at) ELSE began[i].at
EndOf(i) == Grammar[text].value[ValueAt(i), began[i].depth]
Behind(i) == NextToken(text, EndOf(i))
NameRead(i) == Named(i) => /\ HasName(text, began[i].at)
                           /\ TokenOf(text, began[i].at) = strings[items[i].string]
ValueRead(i) ==
    LET first == NextToken(text, ValueAt(i) + 1)
    IN  /\ EndOf(i) # NULL
        /\ TokenOf(text, ValueAt(i)) = CASE items[i].type = "number" -> items[i].value
                                          [] items[i].type = "string" -> strings[items[i].valuestring]
                                          [] OTHER -> items[i].type
        /\ Childs(i) # NULL => began[Childs(i)] = [at |-> first, depth |-> began[i].depth + 1]
        /\ Childs(i) = NULL /\ items[i].type \in DOMAIN Closer =>
              TokenOf(text, first) = Closer[items[i].type]
NextRead(i) ==
    IF items[i].next # NULL
    THEN /\ TokenOf(text, Behind(i)) = ","
         /\ began[items[i].next] = [at |-> NextToken(text, Behind(i) + 1), depth |-> began[i].depth]
    ELSE TokenOf(text, Behind(i)) \in {"]", "}"}

(* A text begins with a value, behind the mark of the byte order.           *)
TextAt == NextToken(text, IF TokenOf(text, 0) = "BOM" /\ Len(text) > 2 THEN 1 ELSE 0)
NoJson == Grammar[text].value[TextAt, 0] = NULL

(* Behind a number of more than 63 characters, of which these were read.    *)
NumberCut == offset > 0 /\ IsCut(text, offset - 1)

(* The tree is the value with which the text begins, with nothing skipped   *)
(* and nothing doubled; and the parser gives up only on a text that begins  *)
(* with none, in the middle of such a number, or when memory runs out.      *)
ParsesJson ==
    /\ pc \in {"search", "walk"} =>
          /\ began[root] = [at |-> TextAt, depth |-> 0] /\ ~Named(root)
          /\ \A i \in Live : NameRead(i) /\ ValueRead(i) /\ (i # root => NextRead(i))
    /\ pc = "fail" /\ ~short => NoJson \/ NumberCut

(* Neither the parser nor cJSON_Delete recurses deeper than the limit.       *)
NestingBounded == Len(frames) <= NESTING_LIMIT /\ Len(deleting) <= NESTING_LIMIT + 1

(* Every payload comes to its end.  *)
Finishes == <>(pc = "done")
=============================================================================

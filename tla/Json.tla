-------------------------------- MODULE Json --------------------------------
(***************************************************************************)
(* The values JSON.parse and the YAML parser return, as trees.  The name   *)
(* of its only field is the type of a value.                               *)
(***************************************************************************)
EXTENDS Integers, Sequences, TLC

CONSTANT MaxDepth   \* (bound) how deep values are nested

ASSUME JsonAssumption == MaxDepth \in Nat

Text(s) == [string |-> s]
Number(n) == [number |-> n]          \* an integer
Fraction(s) == [fraction |-> s]      \* a number that is none
Boolean(b) == [boolean |-> b]
Null == [null |-> TRUE]
Object(fields) == [object |-> fields]
List(items) == [array |-> items]
EmptyObject == Object(<<>>)

IsText(value) == "string" \in DOMAIN value
IsNumber(value) == "number" \in DOMAIN value
IsBoolean(value) == "boolean" \in DOMAIN value
IsRecord(value) == "object" \in DOMAIN value
IsList(value) == "array" \in DOMAIN value

\* The step to a field of an object and to an item of a list.
Key(name) == [key |-> name]
Index(i) == [index |-> i]

\* What stands directly in a value, each with the step that leads there.
Entries(value) ==
    IF IsRecord(value) THEN {<<Key(k), value.object[k]>> : k \in DOMAIN value.object}
    ELSE IF IsList(value) THEN {<<Index(i), value.array[i]>> : i \in DOMAIN value.array}
    ELSE {}

Parts(value) == {entry[2] : entry \in Entries(value)}

\* What stands d levels below a value.
Level(value) ==
    LET level[d \in 0..(MaxDepth + 1)] ==
            IF d = 0 THEN {value} ELSE UNION {Parts(node) : node \in level[d - 1]}
    IN  level

\* A value and all that stands in it: what a recursion over it visits.
Nodes(value) == UNION {Level(value)[d] : d \in 0..MaxDepth}

\* A tree of values that is no deeper than the bound.
IsJson(value) ==
    /\ Level(value)[MaxDepth + 1] = {}
    /\ \A node \in Nodes(value) :
          /\ IsRecord(node) => node = Object([k \in DOMAIN node.object |-> node.object[k]])
          /\ IsList(node) => node = List([i \in DOMAIN node.array |-> node.array[i]])

\* The fields of two objects, those of the first over those of the second.
Over(fields, others) ==
    [k \in DOMAIN fields \cup DOMAIN others |-> IF k \in DOMAIN fields THEN fields[k] ELSE others[k]]

-----------------------------------------------------------------------------
(***************************************************************************)
(* A tree again, as the set of its leaves: what the properties speak of.   *)
(* An empty object or list is a leaf.                                      *)
(***************************************************************************)
Below(step, leaves) == {[path |-> <<step>> \o leaf.path, value |-> leaf.value] : leaf \in leaves}

Leaves(value) ==
    LET leaves[node \in Nodes(value)] ==
            IF Entries(node) = {} THEN {[path |-> <<>>, value |-> node]}
            ELSE UNION {Below(entry[1], leaves[entry[2]]) : entry \in Entries(node)}
    IN  leaves[value]
=============================================================================

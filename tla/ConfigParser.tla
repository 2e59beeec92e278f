---------------------------- MODULE ConfigParser ----------------------------
(***************************************************************************)
(* The configuration parser (desmos-core/src/config/schema.rs), one token  *)
(* a step, and to_toml, which writes a parsed tree back (config/mod.rs).   *)
(*                                                                         *)
(* The lexer (lexer.rs) is the choice of the next token.  Strings,         *)
(* numbers and booleans are one token "v"; the n-th of a document has the  *)
(* value n, so that values can be told apart.  Error positions and texts   *)
(* are left out.  A value of the tree is [val |-> n], [arr |-> sequence]   *)
(* or [tab |-> function of keys].                                          *)
(***************************************************************************)
EXTENDS Naturals, FiniteSets, Sequences, SequencesExt, TLC

CONSTANTS
    KeyOrder,       \* identifiers, in the order of the code's sorted maps
    MaxLines,       \* bound: lines of a document
    MaxPath,        \* bound: identifiers of a header
    MaxDepth,       \* bound: arrays in arrays
    MaxItems        \* bound: items of an array

Keys == ToSet(KeyOrder)
Tokens == Keys \cup {"[", "]", "=", ",", ".", "v", "newline", "eof"}

VARIABLES
    pc,             \* where parse_document stands
    line,           \* the line being read
    stack,          \* arrays being read, innermost last (parse_value)
    values,         \* values read
    doc,            \* [ok, root, current]
    lines           \* history: the lines read

vars == <<pc, line, stack, values, doc, lines>>

----------------------------------------------------------------------------
(* The tree                                                                *)

NoKeys == [k \in {} |-> k]
Table(t) == [tab |-> t]
Array(s) == [arr |-> s]
IsTable(v) == "tab" \in DOMAIN v
IsArray(v) == "arr" \in DOMAIN v
HasTable(s) == \E i \in DOMAIN s : IsTable(s[i])

Put(t, key, v) == (key :> v) @@ t
Failed == [ok |-> FALSE, t |-> NoKeys]
Done(t) == [ok |-> TRUE, t |-> t]

\* A step of a path: into a table, or into the last table of an array.
Seg(key) == [key |-> key, tail |-> FALSE]
ArrayTail(key) == [key |-> key, tail |-> TRUE]

Insert(t, key, v) == IF key \in DOMAIN t THEN Failed ELSE Done(Put(t, key, v))

PushTable(t, key) ==
    LET old == IF key \in DOMAIN t THEN t[key] ELSE Array(<<>>)
    IN  IF IsArray(old) THEN Done(Put(t, key, Array(Append(old.arr, Table(NoKeys))))) ELSE Failed

\* What a line does to the table at the end of its path.
Edit(t, l) ==
    CASE l.is = "table" -> Done(t)
      [] l.is = "tables" -> PushTable(t, Last(l.path))
      [] l.is = "set" -> Insert(t, l.path[1], l.value)

\* The tables on the way are made where they are missing.
RECURSIVE navigate_mut(_, _, _)
navigate_mut(t, path, l) ==
    IF path = <<>> THEN Edit(t, l)
    ELSE LET seg == Head(path)
             new == IF seg.tail THEN Array(<<Table(NoKeys)>>) ELSE Table(NoKeys)
             entry == IF seg.key \in DOMAIN t THEN t[seg.key] ELSE new
             items == IF entry = Array(<<>>) THEN <<Table(NoKeys)>> ELSE entry.arr
             Into(sub) == navigate_mut(sub.tab, Tail(path), l)
         IN  IF ~seg.tail /\ IsTable(entry) /\ Into(entry).ok
             THEN Done(Put(t, seg.key, Table(Into(entry).t)))
             ELSE IF seg.tail /\ IsArray(entry) /\ IsTable(Last(items)) /\ Into(Last(items)).ok
             THEN Done(Put(t, seg.key, Array(Append(Front(items), Table(Into(Last(items)).t)))))
             ELSE Failed

Segs(path) == [i \in DOMAIN path |-> Seg(path[i])]

\* A header opens a section, another line adds a key to the open one.
Apply(d, l) ==
    LET to == CASE l.is = "table" -> Segs(l.path)
                [] l.is = "tables" -> Segs(Front(l.path))
                [] l.is = "set" -> d.current
        r == navigate_mut(d.root, to, l)
    IN  IF d.ok /\ r.ok
        THEN [ok |-> TRUE, root |-> r.t,
              current |-> IF l.is = "tables" THEN Append(to, ArrayTail(Last(l.path))) ELSE to]
        ELSE [d EXCEPT !.ok = FALSE]

Empty == [ok |-> TRUE, root |-> NoKeys, current |-> <<>>]

----------------------------------------------------------------------------
(* to_toml: the lines a tree is written as                                 *)

Sorted(t, Which(_)) == SelectSeq(KeyOrder, LAMBDA k : k \in DOMAIN t /\ Which(t[k]))
Leaf(v) == ~IsTable(v) /\ ~(IsArray(v) /\ HasTable(v.arr))
TableArray(v) == IsArray(v) /\ v.arr # <<>> /\ \A i \in DOMAIN v.arr : IsTable(v.arr[i])
Section(v) == IsTable(v) \/ TableArray(v)

SetLine(key, v) == [is |-> "set", path |-> <<key>>, value |-> v]
HeaderLine(is, path) == [is |-> is, path |-> path, value |-> Array(<<>>)]

\* Variant: a table's sections are written before its keys.
Written_late(leaves, sections) == sections \o leaves

Written(leaves, sections) == leaves \o sections

RECURSIVE write_toml_table(_, _)
write_toml_table(t, path) ==
    LET keys == Sorted(t, Leaf)
        leaves == (IF keys = <<>> \/ path = <<>> THEN <<>> ELSE <<HeaderLine("table", path)>>)
                  \o [i \in DOMAIN keys |-> SetLine(keys[i], t[keys[i]])]
        Item(sub, item) ==
            LET Other(v) == ~IsTable(v)
                ks == Sorted(item, Other)
            IN  <<HeaderLine("tables", sub)>>
                \o [i \in DOMAIN ks |-> SetLine(ks[i], item[ks[i]])]
                \o FlattenSeq([i \in DOMAIN Sorted(item, IsTable) |->
                       LET k == Sorted(item, IsTable)[i]
                       IN  write_toml_table(item[k].tab, Append(sub, k))])
        Of(k) ==
            IF IsTable(t[k]) THEN write_toml_table(t[k].tab, Append(path, k))
            ELSE FlattenSeq([i \in DOMAIN t[k].arr |-> Item(Append(path, k), t[k].arr[i].tab)])
        sections == Sorted(t, Section)
    IN  Written(leaves, FlattenSeq([i \in DOMAIN sections |-> Of(sections[i])]))

----------------------------------------------------------------------------
(* The parser                                                              *)

NoLine == HeaderLine("none", <<>>)

Init ==
    /\ pc = "top" /\ line = NoLine /\ stack = <<>> /\ values = 0
    /\ doc = Empty /\ lines = <<>>

Go(to) == pc' = to /\ UNCHANGED <<line, stack, values, doc, lines>>

EndLine(tok, l) ==
    /\ pc' = IF ~Apply(doc, l).ok THEN "error" ELSE IF tok = "eof" THEN "done" ELSE "top"
    /\ doc' = Apply(doc, l)
    /\ lines' = Append(lines, l)
    /\ line' = NoLine
    /\ UNCHANGED <<stack, values>>

\* A value has been read: into the innermost open array, or it is the line's.
Place(rest, v) ==
    IF rest = <<>>
    THEN line' = [line EXCEPT !.value = v] /\ stack' = <<>> /\ pc' = "value end"
    ELSE /\ stack' = Append(Front(rest), Append(Last(rest), v)) /\ pc' = "item end"
         /\ UNCHANGED line

\* parse_value
Value(tok) ==
    \/ /\ tok = "v"
       /\ values' = values + 1
       /\ Place(stack, [val |-> values + 1])
       /\ UNCHANGED <<doc, lines>>
    \/ /\ tok = "["
       /\ Len(stack) < MaxDepth
       /\ stack' = Append(stack, <<>>) /\ pc' = "item"
       /\ UNCHANGED <<line, values, doc, lines>>

Close ==
    /\ Place(Front(stack), Array(Last(stack)))
    /\ UNCHANGED <<values, doc, lines>>

Name(tok) ==
    /\ tok \in Keys
    /\ line' = [line EXCEPT !.path = Append(@, tok)] /\ pc' = "dot"
    /\ UNCHANGED <<stack, values, doc, lines>>

\* The tokens parse_document takes where it stands.
Accepts(tok) ==
    CASE pc = "top" -> tok \in Keys \cup {"newline", "[", "eof"}
      [] pc = "open" -> tok \in Keys \cup {"["}
      [] pc = "name" -> tok \in Keys
      [] pc = "dot" -> tok \in {".", "]"}
      [] pc = "close" -> tok = "]"
      [] pc \in {"header end", "value end"} -> tok \in {"newline", "eof"}
      [] pc = "eq" -> tok = "="
      [] pc = "value" -> tok \in {"v", "["}
      [] pc = "item" -> tok \in {"v", "[", "]", "newline"}
      [] pc = "item end" -> tok \in {",", "]", "newline"}
      [] OTHER -> FALSE

top(tok) ==
    /\ pc = "top"
    /\ \/ tok = "newline" /\ Go("top")
       \/ tok = "eof" /\ Go("done")
       \/ /\ tok = "[" /\ Len(lines) < MaxLines
          /\ line' = HeaderLine("table", <<>>) /\ pc' = "open"
          /\ UNCHANGED <<stack, values, doc, lines>>
       \/ /\ tok \in Keys /\ Len(lines) < MaxLines
          /\ line' = SetLine(tok, Array(<<>>)) /\ pc' = "eq"
          /\ UNCHANGED <<stack, values, doc, lines>>

header(tok) ==
    \/ /\ pc = "open"
       /\ \/ /\ tok = "["
             /\ line' = HeaderLine("tables", <<>>) /\ pc' = "name"
             /\ UNCHANGED <<stack, values, doc, lines>>
          \/ Name(tok)
    \/ pc = "name" /\ Name(tok)
    \/ /\ pc = "dot"
       /\ \/ tok = "." /\ Len(line.path) < MaxPath /\ Go("name")
          \/ tok = "]" /\ Go(IF line.is = "tables" THEN "close" ELSE "header end")
    \/ pc = "close" /\ tok = "]" /\ Go("header end")
    \/ pc = "header end" /\ tok \in {"newline", "eof"} /\ EndLine(tok, line)

assignment(tok) ==
    \/ pc = "eq" /\ tok = "=" /\ Go("value")
    \/ pc = "value" /\ Value(tok)
    \/ /\ pc = "item"
       /\ \/ tok = "newline" /\ Go("item")
          \/ tok = "]" /\ Close
          \/ Len(Last(stack)) < MaxItems /\ Value(tok)
    \/ /\ pc = "item end"
       /\ \/ tok = "newline" /\ Go("item end")
          \/ tok = "," /\ Go("item")
          \/ tok = "]" /\ Close
    \/ pc = "value end" /\ tok \in {"newline", "eof"} /\ EndLine(tok, line)

unexpected(tok) == pc \notin {"done", "error"} /\ ~Accepts(tok) /\ Go("error")

Next ==
    \E tok \in Tokens :
        top(tok) \/ header(tok) \/ assignment(tok) \/ unexpected(tok)

Spec == Init /\ [][Next]_vars

----------------------------------------------------------------------------
(* Where a line's key belongs: the section opened last before it; of an    *)
(* array of tables, the table its header added.                            *)
Opened(i) ==
    LET hs == {j \in 1 .. i : lines[j].is # "set"}
    IN  IF hs = {} THEN 0 ELSE CHOOSE j \in hs : \A h \in hs : h <= j

RECURSIVE TableAt(_, _)
TableAt(t, path) == IF path = <<>> THEN t ELSE TableAt(t[Head(path)].tab, Tail(path))

Home(i) ==
    LET h == Opened(i)
        path == lines[h].path
        earlier == {j \in 1 .. h : lines[j].is = "tables" /\ lines[j].path = path}
        tables == SelectSeq(TableAt(doc.root, Front(path))[Last(path)].arr, IsTable)
    IN  IF h = 0 THEN doc.root
        ELSE IF lines[h].is = "table" THEN TableAt(doc.root, path)
        ELSE tables[Cardinality(earlier)].tab

(***************************************************************************)
(* Every key of an accepted document is where its section says, with the   *)
(* value its line gave; headers reopen sections and grow arrays without    *)
(* losing what is there.  Only an array may have grown, by the tables of   *)
(* later headers (schema.rs:28-86, 222-345).                               *)
(***************************************************************************)
LinesAreKept ==
    pc = "done" =>
        \A i \in DOMAIN lines :
            lines[i].is = "set" =>
                LET found == Home(i)[lines[i].path[1]]
                IN  \/ found = lines[i].value
                    \/ IsArray(found) /\ IsArray(lines[i].value) /\ IsPrefix(lines[i].value.arr, found.arr)

\* A tree without what to_toml has no text for: tables that hold nothing,
\* and arrays of tables and other values.
RECURSIVE Pruned(_)
Pruned(t) ==
    LET Shown(v) ==
            IF IsTable(v) THEN Pruned(v.tab) # NoKeys
            ELSE IsArray(v) => (TableArray(v) \/ ~HasTable(v.arr))
    IN  [k \in {k \in DOMAIN t : Shown(t[k])} |->
            IF IsTable(t[k]) THEN Table(Pruned(t[k].tab)) ELSE t[k]]

(***************************************************************************)
(* Nothing of an accepted document is lost: every key is where its section *)
(* says, and what to_toml writes is read back as the same tree, but for    *)
(* empty tables and arrays that mix tables with values (mod.rs:216-327).   *)
(* Values are atoms, so this is silent on how one is printed: a float that *)
(* Rust writes with an exponent, or as inf, is refused when read back.     *)
(***************************************************************************)
DocumentIsKept ==
    /\ LinesAreKept
    /\ pc = "done" =>
          LET again == FoldLeft(Apply, Empty, write_toml_table(doc.root, <<>>))
          IN  again.ok /\ again.root = Pruned(doc.root)
=============================================================================

----------------------------- MODULE LiveSource -----------------------------
(***************************************************************************)
(* What the live-mode scripts do to the project's source: live-wrap.mjs    *)
(* and live-insert.mjs put a session's scaffold into it, live-accept.mjs   *)
(* takes the scaffold out again and leaves the accepted variant or the     *)
(* original.  The scripts work on lines, by markers and by counting tags;  *)
(* a file is a sequence of lines here too, of which only the kind and the  *)
(* number of the session and of the variant count.                         *)
(***************************************************************************)
EXTENDS Integers, Sequences, SequencesExt, FiniteSets, FiniteSetsExt

CONSTANTS N   \* variants of a session

\* The markup of an element: <<0, e>> is element e as the developer wrote it,
\* <<s, v>> variant v of session s.
NoMarkup == <<0, 0>>
Line(k, c) == [kind |-> k, of |-> c]
EndDiv == Line("/div", NoMarkup)
Markup(c) == <<Line("element", c), EndDiv>>

Opens(l) == l.kind \in {"element", "wrapper", "original", "variant",
                        "carbonize"}
Closes(l) == l.kind = "/div"

IndexOf(f, k, c) == SelectInSeq(f, LAMBDA l : l = Line(k, c))

\* How many more tags lines i to j open than they close.
Depth(f, i, j) == Cardinality({x \in i .. j : Opens(f[x])})
                    - Cardinality({x \in i .. j : Closes(f[x])})

\* The line that closes what line i opens.
closingLine(f, i) ==
  Min({j \in i + 1 .. Len(f) : Depth(f, i, j) <= 0} \cup {Len(f) + 1})

Replace(f, i, j, new) == SubSeq(f, 1, i - 1) \o new \o SubSeq(f, j + 1, Len(f))

-----------------------------------------------------------------------------
(* Wrapping.  In JSX the element is the one child of an expression, so the *)
(* markers go inside the wrapper's div; in HTML they stand around it.      *)

wrapperLines(s, inside, jsx) ==
  LET mark(k) == Line(k, <<s, 0>>)
  IN  IF jsx
        THEN <<mark("wrapper"), mark("start")>> \o inside
               \o <<mark("slot"), mark("end"), EndDiv>>
        ELSE <<mark("start"), mark("wrapper")>> \o inside
               \o <<mark("slot"), EndDiv, mark("end")>>

\* The scaffold keeps a copy of the element it replaces.
wrapCli(f, s, c, jsx) ==
  LET i == IndexOf(f, "element", c)
      j == closingLine(f, i)
      original == <<Line("original", <<s, 0>>)>> \o SubSeq(f, i, j)
                    \o <<EndDiv>>
  IN  Replace(f, i, j, wrapperLines(s, original, jsx))

computeInsertLine(f, c, position) ==
  LET i == IndexOf(f, "element", c)
  IN  IF position = "before" THEN i ELSE closingLine(f, i) + 1

insertCli(f, s, c, position, jsx) ==
  LET i == computeInsertLine(f, c, position)
  IN  Replace(f, i, i - 1, wrapperLines(s, <<>>, jsx))

\* The agent writes the variants below the slot, all of them in one edit,
\* with a style sheet or without one.
AgentFills(f, s, css) ==
  LET slot == IndexOf(f, "slot", <<s, 0>>)
      one(v) == <<Line("variant", <<s, v>>)>> \o Markup(<<s, v>>)
                  \o <<EndDiv>>
      sheet == IF css THEN <<Line("style", <<s, 0>>)>> ELSE <<>>
  IN  Replace(f, slot + 1, slot,
              sheet \o FlattenSeq([v \in 1 .. N |-> one(v)]))

-----------------------------------------------------------------------------
(* Accepting and discarding.                                               *)

findMarkerBlock(f, s) == [start |-> IndexOf(f, "start", <<s, 0>>),
                          end   |-> IndexOf(f, "end", <<s, 0>>)]

HasSession(f, s) == LET b == findMarkerBlock(f, s)
                    IN  b.start # 0 /\ b.end # 0

\* The lines to replace: the markers, and in JSX the wrapper around them,
\* from the nearest opening of it above to the tag that balances it below.
\* Mutant of expandReplaceRange: from marker to marker.
markersOnly(f, s, jsx) == findMarkerBlock(f, s)

expandReplaceRange(f, s, jsx) ==
  LET b == findMarkerBlock(f, s)
      openers == {i \in 1 .. b.start - 1 : f[i] = Line("wrapper", <<s, 0>>)}
      start == Max(openers \cup {0})
      ends  == {j \in b.end .. Len(f) : Depth(f, start, j) <= 0}
  IN  IF ~jsx \/ openers = {} THEN b
      ELSE [start |-> start, end |-> Min(ends \cup {Len(f)})]

\* What stands between a tag of the block and the one that closes it; <<>>
\* if the block has no such tag.
extractInner(f, s, k, c) ==
  LET b == findMarkerBlock(f, s)
      i == Min({x \in b.start .. b.end : f[x] = Line(k, c)} \cup {b.end})
  IN  IF f[i] # Line(k, c) THEN <<>>
      ELSE SubSeq(f, i + 1, closingLine(f, i) - 1)

extractOriginal(f, s) == extractInner(f, s, "original", <<s, 0>>)
\* Mutant of extractVariant: whichever variant comes first.
extractFirst(f, s, v) == extractInner(f, s, "variant", <<s, 1>>)
extractVariant(f, s, v) == extractInner(f, s, "variant", <<s, v>>)

hasCss(f, s) ==
  LET b == findMarkerBlock(f, s)
  IN  \E i \in b.start .. b.end : f[i] = Line("style", <<s, 0>>)

\* An accepted variant that has a style sheet stays in a scaffold, with the
\* sheet, until the agent has folded it into the project's own styles.
buildCarbonizeReplacement(f, s, v, jsx) ==
  LET mark(k) == Line(k, <<s, 0>>)
      body == <<mark("carbonize-start"), mark("style"),
                mark("carbonize-end"), Line("variant", <<s, v>>)>>
                \o extractVariant(f, s, v) \o <<EndDiv>>
  IN  IF ~hasCss(f, s) THEN extractVariant(f, s, v)
      ELSE IF jsx THEN <<mark("carbonize")>> \o body \o <<EndDiv>>
      ELSE body

hasCarbonize(f, s) == IndexOf(f, "carbonize-start", <<s, 0>>) # 0

handleDiscard(f, s, jsx) ==
  LET r == expandReplaceRange(f, s, jsx)
  IN  Replace(f, r.start, r.end, extractOriginal(f, s))

handleAccept(f, s, v, jsx) ==
  LET r == expandReplaceRange(f, s, jsx)
  IN  Replace(f, r.start, r.end, buildCarbonizeReplacement(f, s, v, jsx))

\* The agent's last step: the scaffold of an accepted variant is gone.
AgentCleans(f, s, jsx) ==
  LET i == IndexOf(f, "carbonize-start", <<s, 0>>)
      j == closingLine(f, i + 3)
      d == IF jsx THEN 1 ELSE 0
  IN  Replace(f, i - d, j + d, SubSeq(f, i + 4, j - 1))

-----------------------------------------------------------------------------
(* What a file renders to: one block for each outermost tag, which is the  *)
(* wrapper of a session, with the original it keeps and the number of its  *)
(* variants, or an element, with its scaffold (n = 1) or without (n = 0).  *)

Tops(f) == SetToSortSeq({i \in 1 .. Len(f) : Opens(f[i])
                                              /\ Depth(f, 1, i - 1) = 0}, <)

BlockAt(f, i) ==
  LET inside(k) == {x \in i .. closingLine(f, i) : f[x].kind = k}
      kept == IF f[i].kind = "wrapper" THEN inside("original") ELSE {i}
      shows(x) == \A k \in kept : k <= x
  IN  [s |-> IF f[i].kind = "wrapper" THEN f[i].of[1] ELSE 0,
       markup |-> IF kept = {} THEN NoMarkup
                  ELSE f[Min({x \in inside("element") : shows(x)})].of,
       n |-> Cardinality(inside("variant"))]

Rendered(f) == LET t == Tops(f) IN [x \in DOMAIN t |-> BlockAt(f, t[x])]
=============================================================================

----------------------------- MODULE HtmlTreesMC -----------------------------
(***************************************************************************)
(* Pages of one to three blocks, of the shapes the passes tell apart.        *)
(***************************************************************************)
EXTENDS HtmlTrees

\* A tree is written down node by node, each before what is in it and with its depth.
T(tag, marks, kids) ==
  LET inside == FlattenSeq(kids)
  IN <<[tag |-> tag, marks |-> marks, depth |-> 0]>>
       \o [k \in DOMAIN inside |-> [inside[k] EXCEPT !.depth = @ + 1]]
E(tag, kids) == T(tag, {}, kids)
Text == E("text", << >>)
Img == E("img", << >>)
Video == T("iframe", {"video"}, << >>)
Row(cell, n) == E("tr", [k \in 1 .. n |-> E(cell, <<Text>>)])
TableOf(head, marks, first, columns) ==
  E("table", (IF head = "none" THEN << >> ELSE <<T("thead", marks, <<Row(head, columns)>>)>>)
    \o <<E("tbody", <<E("tr", [k \in 1 .. columns |-> E(IF k = 1 THEN first ELSE "td", <<Text>>)])>>)>>)

PageOf(nodes) ==
  LET Inside(x, y) == y > x /\ \A z \in x + 1 .. y : nodes[z].depth > nodes[x].depth
      Kids(x) == SelectSeq([k \in DOMAIN nodes |-> k],
                           LAMBDA y : Inside(x, y) /\ nodes[y].depth = nodes[x].depth + 1)
      All == 0 .. Len(nodes) - 1
  IN [tag   |-> Table([x \in All |-> nodes[x + 1].tag]),
      marks |-> Table([x \in All |-> nodes[x + 1].marks]),
      kids  |-> Table([x \in All |-> LET kids == Kids(x + 1) IN [k \in DOMAIN kids |-> kids[k] - 1]])]

PlainBlocks ==
  {E("p", <<Text>>), E("p", <<E("br", << >>)>>), E("p", <<Img>>), Img, Video, E("p", <<Video>>),
   E("figcaption", <<Text>>), E("figure", <<T("img", {"lazy"}, << >>), E("figcaption", <<Text>>)>>),
   E("h2", <<E("b", <<Text>>)>>), T("noscript", {}, <<Img>>)}
WordPressBlocks ==
  {T("div", {"wpb"}, <<E("p", <<Text>>), Img>>), E("picture", <<Text, Img>>),
   T("div", {"wp-caption"}, <<E("a", <<Img>>), T("p", {"caption"}, <<Text>>)>>),
   E("p", <<E("a", <<Img>>)>>), T("section", {"faq"}, <<T("div", {"question"}, <<E("h3", <<Text>>)>>)>>)}
TableBlocks ==
  {T("div", {"scrolls"}, <<E("br", << >>), TableOf("th", {}, "th", 2)>>), E("h3", <<Text>>),
   T("div", {"scrolls"}, <<TableOf("none", {}, "td", 2)>>),
   TableOf("th", {"why"}, "td", 3), T("h2", {"specs-heading"}, <<Text>>),
   T("section", {"specs"},
     <<E("h3", <<Text>>), TableOf("th", {}, "td", 2),
       E("table", <<E("tbody", <<E("tr", <<E("td", <<E("ul", <<E("li", <<Text>>)>>)>>),
                                           E("td", <<Text>>)>>)>>)>>)>>)}
MixedBlocks == {E("p", <<Text, Img>>), E("p", <<Img, Img>>), E("p", <<Video, Text>>)}

ManyBlocks == PlainBlocks \union WordPressBlocks \union TableBlocks
Bodies == {E("body", <<a, b>>) : a \in ManyBlocks, b \in ManyBlocks}
            \union {E("body", <<a>>) : a \in MixedBlocks}
            \union {E("body", <<a, b, c>>) : a, b, c \in TableBlocks}
mcPage == {PageOf(nodes) : nodes \in Bodies}
=============================================================================

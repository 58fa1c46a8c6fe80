------------------------------ MODULE MCRender ------------------------------
(***************************************************************************)
(* Instances of Render: two raster documents, one of pages of unlike       *)
(* sizes, and a PDF of two pages of which Ghostscript may leave one; the   *)
(* templates vary two or more of the attributes that interact.             *)
(***************************************************************************)
EXTENDS Render

MCDocuments ==
  {[format |-> "other", raster |-> <<<<2, 3>>, <<3, 2>>, <<2, 2>>>>, pages |-> 0],
   [format |-> "other", raster |-> <<<<1, 2>>>>, pages |-> 0],
   [format |-> "pdf", raster |-> <<>>, pages |-> 2]}

Template(ranges, numberUp, orientation, draft, sides) ==
  [pageRanges |-> ranges, numberUp |-> numberUp, orientation |-> orientation,
   draft |-> draft, sides |-> sides]

OneSided == "one-sided"
ShortEdge == "two-sided-short-edge"
Mixed == {<<0, 1>>, <<3, 2>>, <<3, 9>>}

MCTemplates ==
  {Template({}, 3, 4, FALSE, ShortEdge),
   Template({<<2, 3>>}, 0, 3, FALSE, ShortEdge),
   Template(Mixed, 0, 5, FALSE, ShortEdge),
   Template(Mixed, 2, 6, FALSE, ShortEdge),
   Template({<<3, 1>>}, 1, 6, FALSE, ShortEdge),
   Template({<<2, 9>>}, 5, 5, TRUE, OneSided),
   Template({<<2, 3>>}, 1, 3, TRUE, ShortEdge)}
=============================================================================

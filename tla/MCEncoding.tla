----------------------------- MODULE MCEncoding -----------------------------
(* Sizes around the table: the standard ones and their neighbours, sources *)
(* of other shapes, an extreme strip, and files without dimensions.        *)
EXTENDS Encoding

Around(s) == {<<s[1] + dw, s[2] + dh>> : dw, dh \in {-1, 0, 1}}

Shapes == {<<640, 360>>, <<640, 480>>, <<720, 1280>>, <<1080, 2400>>,
           <<1920, 1200>>, <<3000, 4000>>, <<7680, 4320>>, <<500, 500>>,
           <<1000, 2>>, <<1, 1>>, <<1, 1000>>, <<0, 10>>}

Strip == {<<4000000, 1>>}
NoDimensions == {<<0, 0>>, <<640, 0>>}

AllSizes ==
  (UNION {Around(s) : s \in StandardSizes}) \cup Shapes \cup Strip \cup NoDimensions
=============================================================================

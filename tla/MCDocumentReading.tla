-------------------------- MODULE MCDocumentReading --------------------------
(* Two requests at a time: a deck and a workbook that share Office, two         *)
(* documents that share the one OCR worker, documents that are read beside one  *)
(* that is refused, and all the ways a file is refused.                         *)
EXTENDS DocumentReading

CONSTANTS d1, d2, c1, c2, s1

Part(at, kind, size, image) == [at |-> at, file |-> at, kind |-> kind, size |-> size, image |-> image, cover |-> 0, ends |-> FALSE]
Text(at, size) == Part(at, "text", size, NoImage)
Ending(part) == [part EXCEPT !.ends = TRUE]
Body_(type, places, parts) == [type |-> type, places |-> places, parts |-> parts]
Served(body) == [fault |-> "none", status |-> 200, length |-> NoLength, encoding |-> "identity",
                 media |-> "generic", size |-> 1, body |-> body]
File(body) == [type |-> body.type, url |-> "allowed", response |-> Served(body)]
Pair(f, g) == (d1 :> f) @@ (d2 :> g)

\* A slide with a chart and notes; a workbook with a chart on its second sheet, which has no rows.
Deck == Body_("pptx", 2, <<Text(1, 2), Part(1, "visual", 1, c1), Part(1, "notes", 1, NoImage), Text(2, 1)>>)
Workbook == Body_("xlsx", 2, <<Text(1, 1), Text(1, 0), Part(2, "visual", 1, c2)>>)
\* A page of text, and a page that is a picture.
Scan == Body_("pdf", 2, <<Text(1, 5), Part(2, "picture", 1, c2), Part(2, "page", 1, c1)>>)
\* A page that is drawn; a page with a stamp that its picture covers.
Drawn == Body_("pdf", 1, <<Part(1, "drawing", 1, NoImage), Part(1, "page", 1, c1)>>)
Stamped == Body_("pdf", 1, <<Text(1, 1), [Part(1, "picture", 1, c2) EXCEPT !.cover = 1], Part(1, "page", 1, c1)>>)
\* A picture under a heading, another section without one, the same picture again, a heading
\* that is too long.
Essay == Body_("docx", 5, <<Part(1, "heading", 1, NoImage), Ending(Text(2, 2)), Part(2, "picture", 1, c2),
                            Text(3, 1), Part(3, "picture", 1, c2), Part(4, "heading", 2, NoImage), Text(5, 7)>>)
Note == Body_("txt", 2, <<Text(1, 6), Text(2, 0)>>)
Empty == Body_("txt", 1, <<Text(1, 0)>>)
Letter == Body_("docx", 1, <<Text(1, 1), Part(1, "picture", 1, c1)>>)
Photos == Body_("xlsx", 2, <<Part(2, "picture", 1, c2)>>)
\* A deck whose two slides have changed their places.
Moved == Body_("pptx", 2, <<[Text(1, 1) EXCEPT !.file = 2], [Part(1, "picture", 1, c1) EXCEPT !.file = 2],
                            [Part(2, "visual", 1, c2) EXCEPT !.file = 1]>>)
\* A chart that is too small to be read.
Chart(type) == Body_(type, 1, <<Part(1, "visual", 0, NoImage)>>)

Refused ==
  {[File(Note) EXCEPT !.url = "refused"], [File(Note) EXCEPT !.type = "pdf"]}
  \cup {[File(Note) EXCEPT !.response = r] : r \in
          {[Served(Note) EXCEPT !.fault = "timeout"], [Served(Note) EXCEPT !.fault = "unreachable"],
           [Served(Note) EXCEPT !.status = 404], [Served(Note) EXCEPT !.length = -1],
           [Served(Note) EXCEPT !.length = 10], [Served(Note) EXCEPT !.encoding = "gzip"],
           [Served(Note) EXCEPT !.media = "image"], [Served(Note) EXCEPT !.size = 10],
           [Served(Note) EXCEPT !.size = 0], [Served(Note) EXCEPT !.media = "pdf"],
           [Served(Note) EXCEPT !.media = "docx"], [Served(Body_("binary", 0, <<>>)) EXCEPT !.size = 2],
           [Served(Deck) EXCEPT !.media = "txt"], Served(Body_("zip", 0, <<>>)),
           [Served(Deck) EXCEPT !.media = "docx"]}}

MCCases ==
  {Pair(File(Chart("pptx")), File(Chart("xlsx"))), Pair(File(Letter), File(Photos))}
  \cup {Pair(File(body), [File(Note) EXCEPT !.url = "refused"]) :
          body \in {Deck, Moved, Workbook, Scan, Drawn, Stamped, Essay, Note}}
  \cup {Pair(File(Empty), f) : f \in Refused}

MCMovedCases == {Pair(File(Moved), File(Empty))}

=============================================================================

----------------------------- MODULE MCChunkStream -----------------------------
(* ChunkStream with the chunkers of the factory, for TLC.                      *)
EXTENDS ChunkStream

CONSTANT Lengths   \* bound: the lengths of a segment

AllKinds == {"default", "sentence", "structure", "code"}

\* Paragraphs for the default chunker; the lines of a plain text file are units
\* that end their own line.
Separator == [default   |-> <<"break", "break">>,
              sentence  |-> <<"break">>,
              structure |-> <<>>,
              code      |-> <<>>]

\* The units that the chunker of a kind tells apart.
Alphabet == [default   |-> {"word", "blank", "stop"},
             sentence  |-> {"word", "stop", "blank"},
             structure |-> {"word", "head", "fence"},
             code      |-> {"wide", "def", "end"}]

\* Ends of sentences at which the default chunker cuts, and at which the two that
\* fall back to it do.
Sentence ==
    [default   |-> {<<"word", "word", "stop", "blank", "word", "word">>,
                    <<"word", "bang", "blank", "word">>},
     sentence  |-> {},
     structure |-> {<<"stop", "blank">>},
     code      |-> {<<"stop", "blank">>}]

\* No extractor yields a segment of blanks.
Segments == [k \in AllKinds |->
    {s \in UNION {[1..m -> Alphabet[k]] : m \in Lengths} : ~IsBlank(s)} \cup Sentence[k]]

\* Fewer units make room for longer documents, and more cuts.
Longest == [default |-> 11, sentence |-> 8, structure |-> 6, code |-> 6]

Units == [k \in AllKinds |->
            Alphabet[k] \cup Range(Separator[k]) \cup UNION {Range(s) : s \in Sentence[k]}]

=============================================================================

----------------------------- MODULE MCPsFrames -----------------------------
EXTENDS PsFrames

Video == 224
Audio == 192
Time  == <<"time", <<33, 0, 5, 0, 1>>>>
Map   == Psm(<<>>, <<Stream(27, Video, <<>>), Stream(144, Audio, <<7>>)>>)

\* NALUs: a parameter set, a slice in two PES, one with a short start code.
Sps   == Pes(Video, 128, <<Time>>, 2, <<0, 0, 0, 1, 103, 66>>)
Slice == Pes(Video, 0, <<>>, 0, <<0, 0, 0, 1, 101, 1, 2, 3, 4, 5>>)
More  == Pes(Video, 0, <<>>, 1, <<6, 7, 8, 0, 0, 1, 9>>)
Short == Pes(Video, 0, <<>>, 0, <<0, 0, 1, 65, 9, 9>>)
Odd   == Pes(Video, 0, <<>>, 0, <<0, 0, 0, 1, 30, 5>>)
Sound == Pes(Audio, 0, <<>>, 0, <<1, 0, 0, 1>>)
Pad   == Pes(190, 0, <<>>, 0, <<255, 255>>)
Empty == Pes(Audio, 0, <<>>, 0, <<>>)
Rich  == Pes(Video, 252,
             <<<<"time", <<49, 0, 1, 0, 1, 17, 0, 1, 0, 1>>>>, <<"escr", <<1, 2, 3, 4, 5, 6>>>>,
               <<"esRate", <<128, 0, 1>>>>, <<"trick", <<32>>>>, <<"copy", <<129>>>>>>, 9, <<0, 0, 0, 1, 97, 7>>)
Wide  == Pes(Video, 39,
             <<<<"escr", <<1, 2, 3, 4, 5, 6>>>>, <<"copy", <<129>>>>, <<"crc", <<1, 2>>>>, <<"base", <<113>>>>,
               <<"packHeader", <<2, 0, 0>>>>, <<"counter", <<1, 2>>>>, <<"buffer", <<3, 4>>>>,
               <<"extension", <<1, 0>>>>>>, 0, <<0, 0, 0, 1, 97, 7>>)

BadSys  == [Sys(<<Video>>) EXCEPT !.length = 8]
BadPsm  == [Map EXCEPT !.length = 9]
CutPsm  == [Map EXCEPT !.length = 16]
OddPsm  == [Map EXCEPT !.mapLength = 8]
\* A broken pack whose bytes hold no start code: after an error the search for
\* the next one goes on in what is left of the pack.
Noise   == Pes(Audio, 128, <<Time>>, 0, <<1, 2, 3, 4>>)
BadPes  == [Noise EXCEPT !.length = 2]
LongPes == [Noise EXCEPT !.hlen = 200]
FewPes  == [Noise EXCEPT !.hlen = 4]

Key     == <<Psh(1), Sys(<<Video, Audio>>), Map, Sps, Slice, More, Short, Sound>>
Plain   == <<Psh(0), Odd, More, Slice, Pad, Empty>>
Renamed == <<Psh(7), Sys(<<>>), Psm(<<5, 6>>, <<Stream(27, Video, <<>>)>>), Rich, Wide, Sound>>
Broken_ == {BadSys, BadPsm, CutPsm, OddPsm, BadPes, LongPes, FewPes, Sys(<<Audio>>), Map}

\* Cuts into equal chunks; the last scenes have two sizes in any order.
Even  == {{n} : n \in {1, 2, 3, 4, 5, 7, 8, 11, 16, 300}}

Live    == {<<Key, Plain>>, <<Plain, Key>>, <<Key \o Plain, Renamed, Plain>>}
           \cup {<<Key \o <<b>> \o Plain>> : b \in Broken_}
           \cup {<<<<Sound>> \o Plain \o <<b>> \o Key, Plain>> : b \in {BadPes, FewPes}}
History == {<<Key \o Plain \o <<Psh(0)>>, Plain \o Renamed>>}
           \cup {<<<<Psh(3), Sps, b, Sound>> \o Key>> : b \in Broken_}
Tool    == {<<Key \o Plain \o Renamed>>, <<<<Psh(0), Map, Pad>> \o <<Psh(2), Empty, Sound, Slice, Sound>>>>,
            <<Key \o <<BadPes>> \o Plain>>}

Of(mode, inputs, cuts) == [mode : {mode}, inputs : inputs, sizes : cuts]

MCMaxPayload == 8
MCScenes ==
  Of("live", Live, Even) \cup Of("history", History, Even) \cup Of("tool", Tool, Even)
  \cup Of("live", {<<Key>>}, {{4, 7}, {13, 30}}) \cup Of("live", {<<Plain, Plain>>}, {{6, 25}})
  \cup Of("history", {<<Renamed \o Plain, Plain>>}, {{19, 40}})
=============================================================================

---------------------------- MODULE MCFrameChain ----------------------------
(***************************************************************************)
(* FrameChain with the shapes of the installed profiles                    *)
(* (configs/runtime/profiles.json) on small frames: the mock detector, also *)
(* scaled and padded, the tracker over a repeated frame, also scaled, the   *)
(* Lynxi detector with overlapping and adjoining windows, also on a smaller *)
(* plane, and images; and planes wider than the original, as the property  *)
(* filter-width allows.                                                    *)
(***************************************************************************)
EXTENDS FrameChain

Base ==
    [source |-> "line", height |-> 2, stride |-> 1, num_buffers |-> None,
     repeat |-> 1, num |-> 1, den |-> 1, offset |-> 0, width |-> 0,
     filter |-> "lynxi", box |-> [min |-> 2, max |-> 4], emit |-> TRUE]

\* Half the size, two columns of padding on either side.
Padded(profile_) ==
    [profile_ EXCEPT !.num = 1, !.den = 2, !.offset = 2, !.width = 8]

\* Half as wide as the original: enlarged and cut, or reduced.
Enlarged(profile_) ==
    [profile_ EXCEPT !.num = 3, !.den = 2, !.offset = -2, !.width = 4]
Reduced(profile_) ==
    [profile_ EXCEPT !.num = 1, !.den = 2, !.width = 4]

\* Wider than the original, filled to the last column or only half.
Wide(profile_) == [profile_ EXCEPT !.num = 3, !.den = 2, !.width = 12]
HalfWide(profile_) == [profile_ EXCEPT !.num = 1, !.den = 2, !.width = 12]

Mock == [Base EXCEPT !.filter = "detector", !.num_buffers = 1]
Tracker == [Base EXCEPT !.source = "area", !.filter = "tracker", !.repeat = 2]

MCProfiles ==
    {Base,
     [Base EXCEPT !.height = 3, !.stride = 2],
     Padded([Base EXCEPT !.stride = 2]), Enlarged(Base), Wide(Base),
     Mock, Padded(Mock), Reduced(Mock), HalfWide(Mock),
     [Mock EXCEPT !.num_buffers = 0, !.emit = FALSE],
     Tracker, Padded(Tracker), [Tracker EXCEPT !.emit = FALSE],
     [Base EXCEPT !.source = "images", !.filter = "test"]}

\* A filter plane narrower than the original whose width is no multiple of
\* four, which the property filter-width allows.
MCOddProfiles ==
    {[Mock EXCEPT !.num = 1, !.den = 2, !.width = 6, !.offset = 1]}

\* Bound: files of up to four lines.
MCInputs ==
    [lines : UNION {[1 .. n -> LineKinds \ {"odd"}] : n \in 0 .. 4} \cup {<<"odd", "row">>},
     cut : BOOLEAN]

Picture(name, supported, decodable) ==
    [name |-> name, supported |-> supported, decodable |-> decodable]

MCDirectories ==
    {<<Picture(2, TRUE, TRUE), Picture(3, FALSE, TRUE), Picture(1, TRUE, TRUE)>>,
     <<Picture(2, TRUE, FALSE), Picture(1, TRUE, TRUE)>>}

Says(scores, center, half) == [scores |-> scores, center |-> center, half |-> half]

\* One tile: nothing, one object of either class, over the border; boxes that
\* the thresholds or the clamp leave nothing of; the same object twice, with
\* equal and with different scores; two classes in one place; a weak box
\* between two that overlap it, one object too many.  Three tiles: an object
\* all of them see, one cut by the border of a tile, one in the overlap seen
\* better by the second tile, two in different tiles.
MCScenes ==
    LET ship == Says(<<80, 30>>, 1, 1)
        car == Says(<<30, 70>>, 2, 1)
    IN  {<<>>, <<<<ship>>>>, <<<<Says(<<60, 60>>, 3, 2), Says(<<90, 0>>, 0, 2)>>>>,
         <<<<Says(<<0, 0>>, 1, 1), Says(<<20, 10>>, 1, 1), Says(<<90, 0>>, 0, 0),
             Says(<<90, 0>>, 1, -1), Says(<<90, 0>>, 2, 0)>>>>,
         <<<<Says(<<60, 0>>, 1, 1), ship, ship>>>>, <<<<ship, car>>>>, <<<<car, ship>>>>,
         <<<<Says(<<50, 0>>, 1, 1), Says(<<60, 0>>, 2, 2), Says(<<70, 0>>, 2, 1)>>>>,
         <<<<Says(<<50, 0>>, 1, 1), Says(<<60, 0>>, 2, 1), Says(<<0, 70>>, 1, 1),
             Says(<<0, 80>>, 3, 2)>>>>,
         <<<<Says(<<70, 0>>, 3, 2)>>, <<Says(<<90, 0>>, 2, 1)>>, <<Says(<<80, 0>>, 1, 1)>>>>,
         <<<<Says(<<90, 0>>, 3, 2)>>, <<Says(<<60, 0>>, 0, 2)>>>>,
         <<<<>>, <<Says(<<90, 0>>, 2, 1)>>, <<Says(<<95, 0>>, 1, 1), Says(<<40, 0>>, 2, 1)>>>>,
         <<<<ship>>, <<>>, <<car>>>>}
=============================================================================

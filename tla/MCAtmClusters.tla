--------------------------- MODULE MCAtmClusters ----------------------------
(* Sites 16 units apart: five ATMs are joined at most four times.          *)
EXTENDS AtmClusters
MCSite ==
    {<<16 * p[1], 16 * p[2]>> :
        p \in {<<0, 0>>, <<1, 0>>, <<2, 3>>, <<3, 2>>, <<4, 0>>, <<4, 1>>,
               <<4, 3>>}}
MCUser == <<0, 0>>
\* A reload may find no ATM, or two that are far from each other.
MCReloaded == {<<>>, <<<<16, 0>>, <<64, 0>>>>}
MCLists == {l \in [AtmIndex -> MCSite] : SortedByDistance(l)} \cup MCReloaded
=============================================================================

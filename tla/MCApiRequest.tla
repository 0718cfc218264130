----------------------------- MODULE MCApiRequest -----------------------------
EXTENDS ApiRequest

\* A mobile number of Brazil, one of Mexico and one of Argentina, of thirteen
\* digits each, and a number long enough for a group.
Brazil    == <<5, 5, 3, 1, 9, 8, 7, 6, 5, 4, 3, 2, 1>>
Mexico    == <<5, 2, 1, 9, 9, 8, 7, 6, 5, 4, 3, 2, 1>>
Argentina == <<5, 4, 9, 1, 1, 8, 7, 6, 5, 4, 3, 2, 1>>
Long      == [n \in 1..18 |-> 1]

MCTexts == {Text("", TRUE, Brazil), Text("", FALSE, Mexico),
            Text("", FALSE, Argentina),
            Text("", FALSE, Long), Text("", FALSE, <<>>),
            Text("empty", FALSE, <<>>), Text("user", FALSE, Brazil),
            Text("group", FALSE, Long), Text("lid", FALSE, Brazil)}

\* Each alone, and the two that matter to each other.
MCTogether == {{}, {"delay"}, {"noId"}, {"url"}, {"audio"}, {"webhookFiles"},
               {"mention"}, {"mention", "caption"}}

\* The number as it is written or normalised, one with a digit more, and a LID.
MCRemotes == {Text("user", FALSE, Brazil), Text("user", FALSE, Long),
              Text("lid", FALSE, Long)}

MCOps == DOMAIN Routes
=============================================================================

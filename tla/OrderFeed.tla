---- MODULE OrderFeed ----
(***************************************************************************)
(* What the publication of orders promises its readers (the forecasts and  *)
(* the dashboard): the published facts are always every source row up to   *)
(* the watermark and none beyond it, and the watermark never goes back.    *)
(***************************************************************************)
EXTENDS Naturals

VARIABLES
    published,   \* the source rows that readers see
    watermark    \* the last row the published version claims to contain

feedVars == <<published, watermark>>

FeedInit == published = {} /\ watermark = 0

Publish ==
    /\ watermark' >= watermark
    /\ published' = 1..watermark'

FeedSpec == FeedInit /\ [][Publish]_feedVars

====

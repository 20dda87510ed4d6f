------------------------------- MODULE Charts -------------------------------
(***************************************************************************)
(* A chart of a page (react/src/panels: MultiSeries and TimeSeries over    *)
(* useChartLifecycle, navigation, ChartToolbar and ChartOverlay): when it  *)
(* may draw, what its x axis shows while new data arrives, what its y axis *)
(* shows, and what becomes of it full-size.                                *)
(*                                                                         *)
(* Data are versions of what the store, or the caller's props, hold. A     *)
(* range of x the reader chose is a token. uPlot is what the code uses of  *)
(* it: a chart built anew shows the data it is given, and asks for its     *)
(* ranges whenever it draws. React's effects run with the render that      *)
(* calls for them.                                                         *)
(***************************************************************************)
EXTENDS Naturals

CONSTANTS MaxData,   \* versions of the data
          Ranges     \* ranges a gesture of the reader may leave

NoRange == "none"
ASSUME RangeBounds == MaxData \in Nat /\ NoRange \notin Ranges

VARIABLES storeFed,   \* the chart has a source, and subscribes itself
          sparkline,  \* compact: a click opens it, as a full chart
          data,       \* what the store or the props hold now
          lastRead,   \* latest.current: what was last read to be drawn
          drawn,      \* what the canvas shows
          inView,     \* the host is within the margin of the screen
          tab,        \* the tab is looked at
          still,      \* the editor drags
          open,       \* full-size
          watched,    \* the observer's element is the chart's host of now
          told,       \* the observer has said how that element is
          onScreen,   \* its last word
          may,        \* state.current.may
          subscribed, \* to the store
          woken,      \* the store is about to call
          owedDraw,   \* state.current.owed
          heldX,      \* navigation's held range
          following,  \* what the toolbar shows
          scale,      \* what the x axis shows: a range held, or the window
          dragging,   \* the pan under way: of this chart, or of one built before
          wantedY, yFit, heldY, yPanned, yShown

feedVars == <<storeFed, sparkline>>
drawVars == <<lastRead, drawn, scale>>
seenVars == <<inView, tab, still, open>>
lifeVars == <<watched, told, onScreen, may, subscribed, woken, owedDraw>>
navVars == <<heldX, following, dragging>>
yVars == <<wantedY, yFit, heldY, yPanned, yShown>>
chartVars == <<feedVars, data, drawVars, seenVars, lifeVars, navVars, yVars>>

Window == "window"
YScales == {"auto", "range"}

-----------------------------------------------------------------------------
(* What the axes show when the chart draws.                                *)

\* xRange: the range held, else the window that ends at the newest point.
XRange(h) == IF h = NoRange THEN Window ELSE h

\* "fit y" autoscales for as long as the scale asked for is the one it was pressed on.
EffectiveY(wanted, fit) == IF fit = wanted THEN "auto" ELSE wanted

\* The range function of y: a pan first, then the scale.
YRange(effective, panned, h) == IF panned /\ h THEN "panned" ELSE effective

-----------------------------------------------------------------------------
(* The lifecycle.                                                          *)

\* The canvas is given the rows before they are read.
DrawThenRead == /\ lastRead' = (IF storeFed THEN data' ELSE lastRead)
                /\ drawn' = lastRead
                /\ owedDraw' = FALSE
                /\ scale' = XRange(heldX)

\* push: a draw, of what the store holds or of the rows last given.
Draw == /\ lastRead' = (IF storeFed THEN data' ELSE lastRead)
        /\ drawn' = lastRead'
        /\ owedDraw' = FALSE
        /\ scale' = XRange(heldX)

NoDraw == UNCHANGED <<lastRead, drawn, scale, owedDraw>>

\* update, with what the observer said, the tab and the pause are now; free: the
\* effect has let go of its subscription, and starts afresh.
Update(free) ==
    LET was == subscribed /\ ~free
    IN /\ may' = (onScreen' /\ tab' /\ ~still')
       /\ IF storeFed THEN /\ subscribed' = may'
                           /\ woken' = (woken /\ was /\ may')
                           /\ IF may' /\ ~was THEN Draw ELSE NoDraw
          ELSE /\ UNCHANGED <<subscribed, woken>>
               /\ IF may' /\ owedDraw THEN Draw ELSE NoDraw

\* The effect runs again: it watches the host of now, and takes it for off screen
\* until the observer has spoken.
Rewatch == watched' = TRUE /\ told' = FALSE /\ onScreen' = FALSE

\* The observer speaks. An element that has left the document is not on screen.
ObserverSpeaks ==
    /\ \/ ~told
       \/ onScreen # (watched /\ inView)
    /\ onScreen' = (watched /\ inView) /\ told' = TRUE
    /\ UNCHANGED <<feedVars, data, seenVars, watched, navVars, yVars>>
    /\ Update(FALSE)

Scrolls ==
    /\ inView' = ~inView
    /\ UNCHANGED <<feedVars, data, drawVars, tab, still, open, lifeVars, navVars, yVars>>

TabMoves ==
    /\ tab' = ~tab
    /\ UNCHANGED <<feedVars, data, inView, still, open, watched, told, onScreen, navVars, yVars>>
    /\ Update(FALSE)

Pauses ==
    /\ still' = ~still
    /\ Rewatch
    /\ UNCHANGED <<feedVars, data, inView, tab, open, navVars, yVars>>
    /\ Update(TRUE)

\* The store's flush, at most ten times a second.
Wakes ==
    /\ woken /\ woken' = FALSE
    /\ UNCHANGED <<feedVars, data, seenVars, watched, told, onScreen, may, subscribed, navVars, yVars>>
    /\ Draw

\* New samples; or new props, which are drawn now or owed.
DataArrives ==
    /\ data < MaxData /\ data' = data + 1
    /\ IF storeFed
       THEN woken' = subscribed /\ UNCHANGED <<drawVars, owedDraw>>
       ELSE /\ woken' = woken /\ lastRead' = data'
            /\ IF may THEN drawn' = data' /\ owedDraw' = FALSE /\ scale' = XRange(heldX)
               ELSE owedDraw' = TRUE /\ UNCHANGED <<drawn, scale>>
    /\ UNCHANGED <<feedVars, seenVars, watched, told, onScreen, may, subscribed, navVars, yVars>>

-----------------------------------------------------------------------------
(* A chart is built anew when its shape, theme, y axis or size changes: of *)
(* the rows last read, with the same navigation. The window's listeners of *)
(* the one before stay, with the pan they were in.                         *)
Builds == drawn' = lastRead /\ lastRead' = lastRead /\ scale' = XRange(heldX)
          /\ dragging' = (IF dragging = "this" THEN "before" ELSE dragging)

Restyles ==
    /\ Builds
    /\ UNCHANGED <<feedVars, data, seenVars, lifeVars, heldX, following, yVars>>

\* Full-size and back: the host is another element. The effect of the lifecycle
\* runs again for a sparkline, whose pace of drawing changes, and for no other.
SetOpen ==
    /\ open' = ~open
    /\ UNCHANGED <<feedVars, data, inView, tab, still, heldX, following, yVars>>
    /\ dragging' = (IF dragging = "this" THEN "before" ELSE dragging)
    /\ drawn' = lastRead /\ scale' = XRange(heldX)
    /\ UNCHANGED <<lastRead, owedDraw>>
    /\ IF sparkline
       THEN Rewatch /\ may' = FALSE /\ subscribed' = FALSE /\ woken' = FALSE
       ELSE watched' = FALSE /\ told' = FALSE /\ UNCHANGED <<onScreen, may, subscribed, woken>>

-----------------------------------------------------------------------------
(* The reader's hand. A sparkline has no navigation until it is opened.    *)
Interactive == ~sparkline \/ open

\* hold: by wheel, a step, a zoom, "fit time".
Hold(range) == heldX' = range /\ following' = FALSE

Navigates == \E range \in Ranges :
    /\ Interactive
    /\ Hold(range) /\ scale' = range
    /\ UNCHANGED <<feedVars, data, lastRead, drawn, seenVars, lifeVars, dragging, yVars>>

Follow ==
    /\ Interactive
    /\ heldX' = NoRange /\ following' = TRUE /\ scale' = Window
    /\ UNCHANGED <<feedVars, data, lastRead, drawn, seenVars, lifeVars, dragging, yVars>>

PanStarts ==
    /\ Interactive /\ dragging = "no" /\ dragging' = "this"
    /\ UNCHANGED <<feedVars, data, drawVars, seenVars, lifeVars, heldX, following, yVars>>

\* A pan of a chart that was built again moves the range held, and no axis.
PanMoves == \E range \in Ranges :
    /\ dragging # "no"
    /\ Hold(range)
    /\ scale' = IF dragging = "this" THEN range ELSE scale
    /\ UNCHANGED <<feedVars, data, lastRead, drawn, seenVars, lifeVars, dragging, yVars>>

PanEnds ==
    /\ dragging # "no" /\ dragging' = "no"
    /\ UNCHANGED <<feedVars, data, drawVars, seenVars, lifeVars, heldX, following, yVars>>

\* The y axis is panned: the first time the chart is built anew with it.
PansY ==
    /\ Interactive
    /\ heldY' = TRUE /\ yPanned' = TRUE /\ yShown' = "panned"
    /\ IF yPanned THEN UNCHANGED <<drawVars, dragging>> ELSE Builds
    /\ UNCHANGED <<feedVars, data, seenVars, lifeVars, heldX, following, wantedY, yFit>>

\* "fit y": the button is there while y is not scaled to the data.
FitsY ==
    /\ Interactive /\ EffectiveY(wantedY, yFit) # "auto"
    /\ yFit' = wantedY
    /\ yShown' = YRange("auto", yPanned, heldY)
    /\ Builds
    /\ UNCHANGED <<feedVars, data, seenVars, lifeVars, heldX, following, wantedY, heldY, yPanned>>

\* The page's y scale is changed: a pan of y is over.
PicksY == \E y \in YScales \ {wantedY} :
    /\ wantedY' = y
    /\ heldY' = FALSE /\ yPanned' = FALSE
    /\ yShown' = EffectiveY(y, yFit)
    /\ Builds
    /\ UNCHANGED <<feedVars, data, seenVars, lifeVars, heldX, following, yFit>>

-----------------------------------------------------------------------------
ChartsInit ==
    /\ storeFed \in BOOLEAN /\ sparkline \in BOOLEAN
    /\ data = 0 /\ lastRead = 0 /\ drawn = 0 /\ scale = Window
    /\ inView \in BOOLEAN /\ tab = TRUE /\ still = FALSE /\ open = FALSE
    /\ watched = TRUE /\ told = FALSE /\ onScreen = FALSE
    /\ may = FALSE /\ subscribed = FALSE /\ woken = FALSE /\ owedDraw = ~storeFed
    /\ heldX = NoRange /\ following = TRUE /\ dragging = "no"
    /\ wantedY \in YScales /\ yFit = NoRange /\ heldY = FALSE /\ yPanned = FALSE
    /\ yShown = wantedY

ChartsNext ==
    \/ ObserverSpeaks \/ Scrolls \/ TabMoves \/ Pauses \/ Wakes \/ DataArrives
    \/ Restyles \/ SetOpen
    \/ Navigates \/ Follow \/ PanStarts \/ PanMoves \/ PanEnds
    \/ PansY \/ FitsY \/ PicksY

ChartsSpec == ChartsInit /\ [][ChartsNext]_chartVars

-----------------------------------------------------------------------------
(* Properties.                                                             *)

\* A chart that may draw shows what there is, or is about to be called: nothing
\* that arrived while it was off screen, hidden or held still is left undrawn.
DrawnOrCalled == may => drawn = data \/ (storeFed /\ woken)

\* The range the reader holds, once shown, is theirs: no new data, wake, rebuild or
\* full-size view moves it, and the toolbar offers the way back to live.
HeldStays == [][heldX # NoRange /\ scale = heldX /\ heldX' = heldX
                  => scale' = heldX /\ ~following']_chartVars

\* The comment of useChartLifecycle: a chart on screen, in a tab that is looked at,
\* not paused, may draw. Full-size it is on screen; once the observer has spoken it
\* should draw.
FullSizeIsLive == open /\ told /\ inView /\ tab /\ ~still => may

\* "Fit the y axis to the data again": after the button, y is what the data need.
FitYFits == [][FitsY => yShown' = "auto"]_chartVars

\* "fit y" holds until the page's y scale changes again.
PickedIsShown == [][PicksY => yShown' = wantedY']_chartVars
=============================================================================

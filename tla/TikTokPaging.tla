---------------------------- MODULE TikTokPaging ----------------------------
(***************************************************************************)
(* How the TikTok adapter walks an account: one page of the Display API's  *)
(* video list for each poll, and a checkpoint that says where the next     *)
(* poll goes on.  A video stands for its high-water mark, the pair of      *)
(* publication second and id that compareHighWater orders, so videos are   *)
(* naturals and 0 is the absent mark.                                      *)
(***************************************************************************)
EXTENDS Integers, FiniteSets

CONSTANTS
  MaxVideo,   \* bound on the videos an account ever publishes
  PageSize    \* videos of one page

ASSUME PagingAssumption == MaxVideo \in Nat \ {0} /\ PageSize \in Nat \ {0}

Video == 1..MaxVideo
Mark == 0..MaxVideo

\* highWater*, pendingHighWater* and cursor of the stored JSON; {} is not initialized.
Checkpoint == [initialized : BOOLEAN, high : Mark, pending : Mark, cursor : Mark]
EmptyCheckpoint == [initialized |-> FALSE, high |-> 0, pending |-> 0, cursor |-> 0]
AtRest(mark) == [initialized |-> TRUE, high |-> mark, pending |-> 0, cursor |-> 0]

Highest(marks) == CHOOSE m \in marks : \A n \in marks : n <= m
Lowest(marks) == CHOOSE m \in marks : \A n \in marks : m <= n

\* The Display API: the newest videos older than the cursor, and whether there are more.
Older(visible, cursor) == {v \in visible : cursor = 0 \/ v < cursor}
PageVideos(visible, cursor) ==
  LET older == Older(visible, cursor)
  IN  {v \in older : Cardinality({u \in older : u > v}) < PageSize}
HasMore(visible, cursor) == PageVideos(visible, cursor) # Older(visible, cursor)

\* createNormalResult: a full page of new videos above a known cutoff is not the last one.
GoesOn(c, visible) ==
  /\ HasMore(visible, c.cursor)
  /\ \A v \in PageVideos(visible, c.cursor) : v > c.high
  /\ c.high # 0

\* Mutant: the page's own newest video becomes the cutoff although the walk goes on.
NextCheckpointPromotes(c, visible) ==
  LET videos == PageVideos(visible, c.cursor)
      observed == Highest(videos \cup {c.pending, c.high})
  IN  IF c.initialized /\ GoesOn(c, visible)
        THEN [initialized |-> TRUE, high |-> observed, pending |-> observed,
              cursor |-> Lowest(videos)]
        ELSE AtRest(observed)

\* The cutoff stays where it is until the walk is over; then the newest video seen on any
\* of its pages becomes the cutoff. A first poll only takes the newest video as baseline.
NextCheckpoint(c, visible) ==
  LET videos == PageVideos(visible, c.cursor)
      observed == Highest(videos \cup {c.pending, c.high})
  IN  IF c.initialized /\ GoesOn(c, visible)
        THEN [initialized |-> TRUE, high |-> c.high, pending |-> observed,
              cursor |-> Lowest(videos)]
        ELSE AtRest(observed)

\* The videos a poll reports: those of the page above the cutoff, none on the first poll.
Detections(c, visible) ==
  IF c.initialized THEN {v \in PageVideos(visible, c.cursor) : v > c.high} ELSE {}

PageComplete(c, visible) == ~(c.initialized /\ GoesOn(c, visible))

=============================================================================

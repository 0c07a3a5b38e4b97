--------------------------- MODULE MCYouTubeIngest ---------------------------
\* YouTubeIngest with the bounds of its run.
EXTENDS YouTubeIngest
=============================================================================

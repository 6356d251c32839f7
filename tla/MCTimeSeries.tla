---------------------------- MODULE MCTimeSeries ----------------------------
\* TimeSeriesCalls checked on short series; the values are in the .cfg files.
EXTENDS TimeSeriesCalls
=============================================================================

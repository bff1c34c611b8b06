----------------------------- MODULE MCReducer ------------------------------
\* The reducer with two or three calls, given by the configurations.
EXTENDS Reducer
=============================================================================

------------------------------ MODULE MCMarks ------------------------------
EXTENDS Marks
OneLine == <<1>>
=============================================================================

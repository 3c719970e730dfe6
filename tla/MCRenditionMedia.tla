-------------------------- MODULE MCRenditionMedia --------------------------
(* Instance of RenditionMedia for TLC. *)
EXTENDS RenditionMedia

\* Both ceilings met, exceeded and undercut in either dimension; zero and odd
\* values; 2492 x 1400 and 1248 x 702, which the floating point product of
\* ScaledDimensions brings below the ceiling; a picture scaled below two pixels.
MCDimension == {0, 2, 361, 360, 702, 1248, 1400, 2492, 7680}
=============================================================================

---------------------------- MODULE ImageMarkersMC ----------------------------
(***************************************************************************)
(* Two markers and two images: a pair of uploads, two uploads of one name    *)
(* of which the first cannot be used, two uploads with one output name, and  *)
(* no upload.                                                                *)
(***************************************************************************)
EXTENDS ImageMarkers

CONSTANTS fileA, fileB, imageA, imageB

mcParagraphs == {<<"text">>, <<"caption">>, <<fileA>>, <<"text", fileA>>, <<fileA, "text">>, <<fileA, fileB>>,
                 <<"text", fileA, "caption", fileB>>}
mcCarriers == {<<"text">>, <<fileA>>}

Listed(file, url, usable) == [file |-> file, url |-> url, usable |-> usable]
mcManifest == {<<Listed(fileA, imageA, TRUE), Listed(fileB, imageB, TRUE)>>, <<Listed(fileA, imageA, FALSE), Listed(fileA, imageB, TRUE)>>,
               <<Listed(fileA, imageA, TRUE), Listed(fileB, imageA, TRUE)>>, << >>}
===============================================================================

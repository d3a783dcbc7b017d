----------------------------- MODULE MCCachedFn -----------------------------
(* Few keys and texts, and the two caches that tgv has. *)
EXTENDS CachedFn

CONSTANTS transform, assets

TwoCaches == <<transform, assets>>
=============================================================================

------------------------- MODULE MCProviderPlugins -------------------------
EXTENDS ProviderPlugins

CONSTANTS b1, b2, i1, i2, Kubeadm

\* Two binary values, two system images; the extensions may name an entry
\* that is not an infrastructure provider.
MCBins == {b1, b2}
MCSystemImages == {i1, i2}
MCInfraProviderList == <<Metal3, Byoh>>
MCExtension == {Metal3, Byoh, Kubeadm}
==============================================================================
